---- MODULE Spec2Model ----
(***************************************************************************)
(* A model of the FlowGen diagram editor: the undo/redo history container  *)
(* behind useDiagramEditor, the debounced render scheduler, and the SVG    *)
(* sanitizer.                                                              *)
(*                                                                         *)
(* The specifications share the variables:                                  *)
(*   Spec          the editor hook (useDiagramEditor) with its timers,     *)
(*                 in-flight render calls and the export hand-off;         *)
(*   SpecEdit      the same hook driven by text edits and undo only, for   *)
(*                 longer runs of edits;                                   *)
(*   SpecHistory   the history container alone, driven up to and past      *)
(*                 MAX_HISTORY_LENGTH;                                     *)
(*   SpecSanitize  sanitizeSvg applied to a bounded family of markup trees; *)
(*   SpecSession   the session operations of the hook (edits, kind switch,  *)
(*                 settings, reload from durable storage), the render      *)
(*                 scheduler left aside;                                   *)
(*   SpecImport    the same operations and the file import;                *)
(*   SpecLoad      the hook mounting with a document found in storage.     *)
(*   SpecRename    the hook driven by edits and renames from the preview.  *)
(*   SpecZoom      the zoom and pan of the preview.                        *)
(*   SpecFiles     the hook with the export menu and the import, each a    *)
(*                 start and a completion.                                 *)
(*   SpecCycle     every operation that writes the session, with the       *)
(*                 render scheduler running.                               *)
(***************************************************************************)
EXTENDS Integers, Sequences, FiniteSets, TLC

VARIABLES
    codeHistory,   \* useHistory<string>: [past, present, future]
    sinceSet,      \* ms since the previous accepted set, capped at BATCH_THRESHOLD
    settings,      \* [diagramType, theme, projectTitle]
    isValid,       \* useState(true)
    error,         \* useState<string | null>(null)
    svgOutput,     \* useState<string>(''): a markup document
    isRendering,   \* useState(false)
    debounce,      \* debounceRef: NoTimer or [left, code, theme]
    inflight,      \* unresolved mermaid.render promises: set of [id, code, theme,
                   \* svgAt], svgAt the svgOutput when the call was made
    renderCalls,   \* every external render call made so far, in order
    exportedSvg,   \* the markup last handed to the SVG export download
    opCount,       \* number of user operations so far
    lastOp,        \* the last user operation: [op, val, prev, futLen]
    lastFire,      \* what the last debounce callback did: "none", "blank", "call"
    burst,         \* the current run of setCode calls, each < DEBOUNCE_MS after the last
    sinceCall,     \* ms since the last setCode call, capped at DEBOUNCE_MS
    burstRenders,  \* source arguments of the external calls since the run began
    hNext,         \* SpecHistory: the next fresh value
    hDetours,      \* SpecHistory: operations other than a spaced fresh set so far
    hLog,          \* SpecHistory: the last operations, newest last
    sanInput,      \* SpecSanitize: the markup given to sanitizeSvg
    sanOutput,     \* SpecSanitize: what sanitizeSvg returned
    sanPhase,      \* SpecSanitize: "idle", "input", "done", "again"
    toast,         \* SpecSession: the notification the last operation showed, NoToast
                   \* if it showed none: [title, description]
    before,        \* SpecSession: [codeHistory, settings] before the last operation
    stored,        \* localStorage[STORAGE_KEY] as JSON.parse reads it, NoItem if absent
    isExporting,   \* ExportButton: useState(false)
    exporting,     \* raster exports waiting for their image, oldest first:
                   \* [format, svg], svg the svgOutput when the export was asked for
    reading,       \* names of the files whose text the import is waiting for,
                   \* oldest first
    menuOpen,      \* the export dropdown menu is open
    exportedCode,  \* the source files handed to the download so far, in order:
                   \* [format, code]
    scale,         \* DiagramPreview: useState(1), in hundredths
    pan            \* DiagramPreview: <<panX, panY>>

vars == <<codeHistory, sinceSet, settings, isValid, error, svgOutput, isRendering,
          debounce, inflight, renderCalls, exportedSvg, opCount, lastOp, lastFire,
          burst, sinceCall, burstRenders, hNext, hDetours, hLog,
          sanInput, sanOutput, sanPhase, toast, before, stored,
          isExporting, exporting, reading, menuOpen, exportedCode, scale, pan>>

editorVars == <<codeHistory, sinceSet, settings, isValid, error, svgOutput,
                isRendering, debounce, inflight, renderCalls, exportedSvg, opCount,
                lastOp, lastFire, burst, sinceCall, burstRenders>>
historyVars == <<hNext, hDetours, hLog>>
sanVars == <<sanInput, sanOutput, sanPhase>>
sessionVars == <<toast, before>>
fileVars == <<isExporting, exporting, reading, menuOpen, exportedCode>>
previewVars == <<scale, pan>>

-----------------------------------------------------------------------------
(* Program constants *)

DEBOUNCE_MS == 300
\* DiagramPreview.  The scale is counted in hundredths: 0.25 is 25, 5 is 500.
\* The sums the program makes of 0.25 and 0.1 in floating point are within
\* a billionth of these hundredths, and Math.round(scale * 100) shows them.
ZOOM_STEP == 25
WHEEL_STEP == 10
MIN_SCALE == 25
MAX_SCALE == 500
BATCH_THRESHOLD == 500
MAX_HISTORY_LENGTH == 50

(* Bounds of the model *)

\* Time advances in steps of TickMs, or up to the instant the pending timer is due.
TickMs == 250
\* User operations in one run of Spec.
MaxOps == 2
\* Edits (setCode, undo) in one run of SpecEdit.
MaxEdits == 3
\* User operations in one run of SpecSession.
MaxSessionOps == 4
\* User operations in one run of SpecImport.
MaxImportOps == 2
\* User operations in one run of SpecLoad.
MaxLoadOps == 2
\* User operations in one run of SpecRename.
MaxRenameOps == 2
\* User operations in one run of SpecFiles.
MaxFileOps == 3
\* User operations in one run of SpecCycle.
MaxCycleOps == 3
\* User operations in one run of SpecTemplates.
MaxTemplateOps == 2
\* User operations in one run of SpecZoom.
MaxZoomOps == 18
\* The farthest a drag takes the diagram in one direction in SpecZoom.
MaxPan == 10
\* Fresh values set in one run of SpecHistory.
MaxSets == 52
\* Operations other than a spaced fresh set in one run of SpecHistory.
MaxDetours == 2
\* Entries of hLog.
LogLen == 4
\* SpecHistory takes its detours while fewer than DetourWindow values were set,
\* or once MAX_HISTORY_LENGTH - 1 values were.
DetourWindow == 3
\* Children of the root element, and of an inner element, in SpecSanitize.
MaxSiblings == 2
MaxNested == 1

-----------------------------------------------------------------------------
(* Strings *)

Min(a, b) == IF a < b THEN a ELSE b

IsSpace(c) == c \in {" ", "\n", "\t"}

RECURSIVE TrimStart(_)
TrimStart(s) ==
    IF Len(s) = 0 THEN s
    ELSE IF IsSpace(SubSeq(s, 1, 1)) THEN TrimStart(SubSeq(s, 2, Len(s)))
    ELSE s

RECURSIVE TrimEnd(_)
TrimEnd(s) ==
    IF Len(s) = 0 THEN s
    ELSE IF IsSpace(SubSeq(s, Len(s), Len(s))) THEN TrimEnd(SubSeq(s, 1, Len(s) - 1))
    ELSE s

\* String.prototype.trim
Trim(s) == TrimEnd(TrimStart(s))

\* String.prototype.startsWith
StartsWith(s, p) == Len(s) >= Len(p) /\ SubSeq(s, 1, Len(p)) = p

UpperLetters == <<"A","B","C","D","E","F","G","H","I","J","K","L","M",
                  "N","O","P","Q","R","S","T","U","V","W","X","Y","Z">>
LowerLetters == <<"a","b","c","d","e","f","g","h","i","j","k","l","m",
                  "n","o","p","q","r","s","t","u","v","w","x","y","z">>

LowerChar(c) ==
    IF \E i \in 1..26 : UpperLetters[i] = c
    THEN LowerLetters[CHOOSE i \in 1..26 : UpperLetters[i] = c]
    ELSE c

RECURSIVE ToLowerCase(_)
\* String.prototype.toLowerCase
ToLowerCase(s) ==
    IF Len(s) = 0 THEN s
    ELSE LowerChar(SubSeq(s, 1, 1)) \o ToLowerCase(SubSeq(s, 2, Len(s)))

-----------------------------------------------------------------------------
(* History container (useHistory) *)

\* The last n entries of s: Array.prototype.slice(-n)
LastN(s, n) == IF Len(s) <= n THEN s ELSE SubSeq(s, Len(s) - n + 1, Len(s))

NewHistory(initial) == [past |-> <<>>, present |-> initial, future |-> <<>>]

\* Mutant: the push branch forgets to evict the oldest entry.
HistSet_NoEvict(h, value, dt) ==
    IF value = h.present THEN h
    ELSE IF dt < BATCH_THRESHOLD /\ Len(h.past) > 0
         THEN [past |-> h.past, present |-> value, future |-> <<>>]
         ELSE [past |-> Append(h.past, h.present), present |-> value, future |-> <<>>]

\* Mutant: the batching branch forgets to clear future.
HistSet_BatchKeepsFuture(h, value, dt) ==
    IF value = h.present THEN h
    ELSE IF dt < BATCH_THRESHOLD /\ Len(h.past) > 0
         THEN [past |-> h.past, present |-> value, future |-> h.future]
         ELSE [past |-> LastN(Append(h.past, h.present), MAX_HISTORY_LENGTH),
               present |-> value,
               future |-> <<>>]

HistSet(h, value, dt) ==
    IF value = h.present THEN h
    ELSE IF dt < BATCH_THRESHOLD /\ Len(h.past) > 0
         THEN [past |-> h.past, present |-> value, future |-> <<>>]
         ELSE [past |-> LastN(Append(h.past, h.present), MAX_HISTORY_LENGTH),
               present |-> value,
               future |-> <<>>]

\* Whether set(value) is accepted (and so restarts the batching clock).
HistAccepts(h, value) == value # h.present

\* Mutant: undo leaves the entry it restores in past.
HistUndo_KeepsPast(h) ==
    IF Len(h.past) = 0 THEN h
    ELSE [past |-> h.past,
          present |-> h.past[Len(h.past)],
          future |-> <<h.present>> \o h.future]

HistUndo(h) ==
    IF Len(h.past) = 0 THEN h
    ELSE [past |-> SubSeq(h.past, 1, Len(h.past) - 1),
          present |-> h.past[Len(h.past)],
          future |-> <<h.present>> \o h.future]

HistRedo(h) ==
    IF Len(h.future) = 0 THEN h
    ELSE [past |-> Append(h.past, h.present),
          present |-> h.future[1],
          future |-> Tail(h.future)]

HistClear(h) == [past |-> <<>>, present |-> h.present, future |-> <<>>]

canUndo(h) == Len(h.past) > 0
canRedo(h) == Len(h.future) > 0

-----------------------------------------------------------------------------
(* Markup documents                                                        *)
(*                                                                         *)
(* A markup string is modelled as the document it parses to: a sequence of *)
(* root elements (empty for the empty string), each element a record       *)
(* [tag, attrs, children] with attrs a sequence of [name, value].          *)

EmptyMarkup == <<>>

Attr(n, v) == [name |-> n, value |-> v]
Elem(t, a, c) == [tag |-> t, attrs |-> a, children |-> c]

\* The sequences over S of length at most n.
SeqUpTo(S, n) == UNION {[1..k -> S] : k \in 0..n}

RECURSIVE QuerySelector(_, _)
\* Document.querySelector(tag): the first element with that tag in document
\* order, as <<element>>, or <<>> when there is none.
QuerySelector(nodes, t) ==
    IF Len(nodes) = 0 THEN <<>>
    ELSE IF nodes[1].tag = t THEN <<nodes[1]>>
    ELSE LET inner == QuerySelector(nodes[1].children, t)
         IN  IF Len(inner) > 0 THEN inner ELSE QuerySelector(Tail(nodes), t)

-----------------------------------------------------------------------------
(* Output sanitizer (svgSanitizer.ts) *)

DANGEROUS_TAGS == {"script", "iframe", "object", "embed", "form", "input", "button"}
DANGEROUS_ATTR_PREFIXES == {"on", "javascript:", "data:"}
DANGEROUS_ATTRS == {"xlink:href", "href", "formaction"}

IsDangerousTag(element) == ToLowerCase(element.tag) \in DANGEROUS_TAGS

IsDangerousAttr(attr) ==
    LET attrName == ToLowerCase(attr.name)
        attrValue == ToLowerCase(attr.value)
    IN  \/ \E prefix \in DANGEROUS_ATTR_PREFIXES :
              StartsWith(attrName, prefix) \/ StartsWith(attrValue, prefix)
        \/ attrName \in DANGEROUS_ATTRS

\* attrsToRemove.forEach(attrName => element.removeAttribute(attrName))
RemoveDangerousAttrs(attrs) ==
    LET attrsToRemove == {attrs[i].name : i \in {j \in 1..Len(attrs) : IsDangerousAttr(attrs[j])}}
    IN  SelectSeq(attrs, LAMBDA a : a.name \notin attrsToRemove)

RECURSIVE sanitizeElement(_)
RECURSIVE SanitizeChildren(_, _)

\* The loop `for (i = 0; i < element.children.length; i++)` over the live
\* children collection, from (1-based) position i: a child that removes
\* itself shifts its later siblings down one place while i still advances.
SanitizeChildren(children, i) ==
    IF i > Len(children) THEN children
    ELSE LET r == sanitizeElement(children[i])
         IN  SanitizeChildren(SubSeq(children, 1, i - 1) \o r
                                \o SubSeq(children, i + 1, Len(children)),
                              i + 1)

\* sanitizeElement(element): <<>> when the element removed itself from its
\* parent, else <<the element after sanitizing>>.
sanitizeElement(element) ==
    IF IsDangerousTag(element) THEN <<>>
    ELSE <<[tag |-> element.tag,
            attrs |-> RemoveDangerousAttrs(element.attrs),
            children |-> SanitizeChildren(element.children, 1)]>>

sanitizeSvg(svg) ==
    LET found == QuerySelector(svg, "svg")
    IN  IF Len(found) = 0 THEN svg
        ELSE sanitizeElement(found[1])

-----------------------------------------------------------------------------
(* Types and templates *)

DiagramTypes == {"flowchart", "sequence", "class", "state", "er", "gantt", "pie",
                 "mindmap", "timeline", "quadrant", "gitgraph", "c4", "sankey",
                 "block", "journey"}
MermaidThemes == {"default", "dark", "forest", "neutral"}

\* getDefaultCode('flowchart'): the template text, written by its header line.
FlowchartTemplate == "flowchart TD"

Null == "null"

-----------------------------------------------------------------------------
(* The external renderer (mermaid.render), an opaque collaborator: a       *)
(* deterministic stand-in that rejects some sources with a syntax error    *)
(* and answers the others with markup, which is untrusted.                 *)

\* Sources the renderer rejects.
SyntaxErrorCodes == {"gra"}
\* Sources whose rendered markup carries active content.
ActiveContentCodes == {"graph x"}

RenderedMarkup(code, theme) ==
    <<Elem("svg",
           <<Attr("class", theme), Attr("aria-roledescription", code)>>,
           IF code \in ActiveContentCodes
           THEN <<Elem("script", <<>>, <<>>),
                  Elem("g", <<Attr("onclick", "run()"), Attr("id", "n1")>>, <<>>)>>
           ELSE <<Elem("g", <<Attr("id", "n1")>>, <<>>)>>)>>

MermaidRender(code, theme) ==
    IF code \in SyntaxErrorCodes
    THEN [ok |-> FALSE, svg |-> EmptyMarkup, message |-> "Parse error: " \o code]
    ELSE [ok |-> TRUE, svg |-> RenderedMarkup(code, theme), message |-> Null]

-----------------------------------------------------------------------------
(* Templates and kind detection (diagramTemplates.ts, mermaidFileUtils.ts) *)

\* diagramTemplates: each template is written by its header line.
diagramTemplates ==
    [flowchart |-> FlowchartTemplate, sequence |-> "sequenceDiagram",
     class |-> "classDiagram", state |-> "stateDiagram-v2", er |-> "erDiagram",
     gantt |-> "gantt", pie |-> "pie title Market Share", mindmap |-> "mindmap",
     timeline |-> "timeline", quadrant |-> "quadrantChart", gitgraph |-> "gitGraph",
     journey |-> "journey", c4 |-> "C4Context", sankey |-> "sankey-beta",
     block |-> "block-beta"]

\* The template property of every entry of diagramTemplates, in full.
templateSource ==
    [flowchart |->
           "flowchart TD\n"
        \o "    A[Start] --> B{Decision}\n"
        \o "    B -->|Yes| C[Process 1]\n"
        \o "    B -->|No| D[Process 2]\n"
        \o "    C --> E[End]\n"
        \o "    D --> E",
     sequence |->
           "sequenceDiagram\n"
        \o "    participant A as Alice\n"
        \o "    participant B as Bob\n"
        \o "    A->>B: Hello Bob!\n"
        \o "    B-->>A: Hi Alice!\n"
        \o "    A->>B: How are you?\n"
        \o "    B-->>A: I'm good, thanks!",
     class |->
           "classDiagram\n"
        \o "    class Animal {\n"
        \o "        +String name\n"
        \o "        +int age\n"
        \o "        +makeSound()\n"
        \o "    }\n"
        \o "    class Dog {\n"
        \o "        +String breed\n"
        \o "        +bark()\n"
        \o "    }\n"
        \o "    class Cat {\n"
        \o "        +String color\n"
        \o "        +meow()\n"
        \o "    }\n"
        \o "    Animal <|-- Dog\n"
        \o "    Animal <|-- Cat",
     state |->
           "stateDiagram-v2\n"
        \o "    [*] --> Idle\n"
        \o "    Idle --> Running: Start\n"
        \o "    Running --> Paused: Pause\n"
        \o "    Paused --> Running: Resume\n"
        \o "    Running --> Idle: Stop\n"
        \o "    Paused --> Idle: Stop",
     er |->
           "erDiagram\n"
        \o "    CUSTOMER ||--o{ ORDER : places\n"
        \o "    ORDER ||--|{ LINE-ITEM : contains\n"
        \o "    CUSTOMER {\n"
        \o "        string name\n"
        \o "        string email\n"
        \o "    }\n"
        \o "    ORDER {\n"
        \o "        int orderNumber\n"
        \o "        date createdAt\n"
        \o "    }\n"
        \o "    LINE-ITEM {\n"
        \o "        string product\n"
        \o "        int quantity\n"
        \o "    }",
     gantt |->
           "gantt\n"
        \o "    title Project Timeline\n"
        \o "    dateFormat YYYY-MM-DD\n"
        \o "    section Planning\n"
        \o "    Research       :a1, 2024-01-01, 7d\n"
        \o "    Design         :a2, after a1, 5d\n"
        \o "    section Development\n"
        \o "    Backend        :a3, after a2, 10d\n"
        \o "    Frontend       :a4, after a2, 12d\n"
        \o "    section Launch\n"
        \o "    Testing        :a5, after a4, 5d\n"
        \o "    Deploy         :a6, after a5, 2d",
     pie |->
           "pie title Market Share\n"
        \o "    \"Product A\" : 45\n"
        \o "    \"Product B\" : 30\n"
        \o "    \"Product C\" : 15\n"
        \o "    \"Others\" : 10",
     mindmap |->
           "mindmap\n"
        \o "  root((Project))\n"
        \o "    Planning\n"
        \o "      Research\n"
        \o "      Requirements\n"
        \o "    Development\n"
        \o "      Frontend\n"
        \o "      Backend\n"
        \o "    Testing\n"
        \o "      Unit Tests\n"
        \o "      Integration",
     timeline |->
           "timeline\n"
        \o "    title History of Events\n"
        \o "    2020 : Project Started\n"
        \o "    2021 : First Release\n"
        \o "         : Team Expanded\n"
        \o "    2022 : Major Update\n"
        \o "    2023 : Global Launch",
     quadrant |->
           "quadrantChart\n"
        \o "    title Priority Matrix\n"
        \o "    x-axis Low Effort --> High Effort\n"
        \o "    y-axis Low Impact --> High Impact\n"
        \o "    quadrant-1 Quick Wins\n"
        \o "    quadrant-2 Major Projects\n"
        \o "    quadrant-3 Fill Ins\n"
        \o "    quadrant-4 Thankless Tasks\n"
        \o "    Feature A: [0.3, 0.8]\n"
        \o "    Feature B: [0.7, 0.9]\n"
        \o "    Feature C: [0.2, 0.3]\n"
        \o "    Feature D: [0.8, 0.2]",
     gitgraph |->
           "gitGraph\n"
        \o "    commit id: \"Initial\"\n"
        \o "    branch develop\n"
        \o "    commit id: \"Feature 1\"\n"
        \o "    commit id: \"Feature 2\"\n"
        \o "    checkout main\n"
        \o "    merge develop\n"
        \o "    commit id: \"Hotfix\"\n"
        \o "    branch release\n"
        \o "    commit id: \"v1.0\"",
     journey |->
           "journey\n"
        \o "    title User Onboarding Journey\n"
        \o "    section Sign Up\n"
        \o "      Visit website: 5: User\n"
        \o "      Create account: 3: User\n"
        \o "      Verify email: 4: User\n"
        \o "    section First Use\n"
        \o "      Complete tutorial: 4: User\n"
        \o "      Create first project: 5: User\n"
        \o "    section Engagement\n"
        \o "      Invite team members: 3: User\n"
        \o "      Upgrade to pro: 5: User",
     c4 |->
           "C4Context\n"
        \o "    title System Context Diagram\n"
        \o "    Person(user, \"User\", \"A user of the system\")\n"
        \o "    System(system, \"Application\", \"The main application\")\n"
        \o "    System_Ext(email, \"Email System\", \"Sends emails\")\n"
        \o "    Rel(user, system, \"Uses\")\n"
        \o "    Rel(system, email, \"Sends emails using\")",
     sankey |->
           "sankey-beta\n"
        \o "    Source A,Target X,50\n"
        \o "    Source A,Target Y,30\n"
        \o "    Source B,Target Y,40\n"
        \o "    Source B,Target Z,60\n"
        \o "    Target X,Final,50\n"
        \o "    Target Y,Final,70\n"
        \o "    Target Z,Final,60",
     block |->
           "block-beta\n"
        \o "    columns 3\n"
        \o "    a[\"Frontend\"]:1\n"
        \o "    b[\"API Gateway\"]:1\n"
        \o "    c[\"Backend\"]:1\n"
        \o "    d[\"Database\"]:3"]

\* template?.template || diagramTemplates[0].template
getDefaultCode(type) ==
    IF type \in DOMAIN diagramTemplates THEN diagramTemplates[type]
    ELSE diagramTemplates["flowchart"]

\* Each pattern is /^word/im, or /^word\s/im when space is TRUE.
DIAGRAM_TYPE_PATTERNS ==
    <<[word |-> "flowchart", space |-> TRUE, type |-> "flowchart"],
      [word |-> "graph", space |-> TRUE, type |-> "flowchart"],
      [word |-> "sequenceDiagram", space |-> FALSE, type |-> "sequence"],
      [word |-> "classDiagram", space |-> FALSE, type |-> "class"],
      [word |-> "stateDiagram", space |-> FALSE, type |-> "state"],
      [word |-> "erDiagram", space |-> FALSE, type |-> "er"],
      [word |-> "gantt", space |-> FALSE, type |-> "gantt"],
      [word |-> "pie", space |-> FALSE, type |-> "pie"],
      [word |-> "mindmap", space |-> FALSE, type |-> "mindmap"],
      [word |-> "timeline", space |-> FALSE, type |-> "timeline"],
      [word |-> "quadrantChart", space |-> FALSE, type |-> "quadrant"],
      [word |-> "gitGraph", space |-> FALSE, type |-> "gitgraph"],
      [word |-> "C4Context", space |-> FALSE, type |-> "c4"],
      [word |-> "C4Container", space |-> FALSE, type |-> "c4"],
      [word |-> "C4Component", space |-> FALSE, type |-> "c4"],
      [word |-> "C4Dynamic", space |-> FALSE, type |-> "c4"],
      [word |-> "C4Deployment", space |-> FALSE, type |-> "c4"],
      [word |-> "sankey", space |-> FALSE, type |-> "sankey"],
      [word |-> "block-beta", space |-> FALSE, type |-> "block"],
      [word |-> "journey", space |-> FALSE, type |-> "journey"]>>

\* The positions where ^ matches under the m flag.
LineStarts(s) == {1} \cup {i + 1 : i \in {j \in 1..Len(s) : SubSeq(s, j, j) = "\n"}}

\* Mutant: every pattern asks for a blank after its word.
PatternTest_NeedsSpace(p, s, starts) ==
    \E i \in starts :
        LET n == Len(p.word)
        IN  /\ i + n <= Len(s)
            /\ ToLowerCase(SubSeq(s, i, i + n - 1)) = ToLowerCase(p.word)
            /\ IsSpace(SubSeq(s, i + n, i + n))

\* pattern.test(s), case-insensitive, starts being the positions where ^ matches
PatternTest(p, s, starts) ==
    \E i \in starts :
        LET n == Len(p.word)
        IN  /\ i + n - 1 <= Len(s)
            /\ ToLowerCase(SubSeq(s, i, i + n - 1)) = ToLowerCase(p.word)
            /\ p.space => (i + n <= Len(s) /\ IsSpace(SubSeq(s, i + n, i + n)))

\* The loop of detectDiagramType over DIAGRAM_TYPE_PATTERNS
FirstPattern(trimmedCode, starts) ==
    LET hits == {k \in 1..Len(DIAGRAM_TYPE_PATTERNS) :
                    PatternTest(DIAGRAM_TYPE_PATTERNS[k], trimmedCode, starts)}
    IN  IF hits = {} THEN "flowchart"
        ELSE DIAGRAM_TYPE_PATTERNS[CHOOSE k \in hits : \A j \in hits : k <= j].type

detectDiagramType(code) == FirstPattern(Trim(code), LineStarts(Trim(code)))

-----------------------------------------------------------------------------
(* Values read from files: a JSON value is [type, v, pad].  A string is its *)
(* text v followed by pad blank characters, so that texts of a million      *)
(* characters can be written down.                                          *)

JStrPad(s, n) == [type |-> "string", v |-> s, pad |-> n]
JStr(s) == JStrPad(s, 0)
JNum(s) == [type |-> "number", v |-> s, pad |-> 0]
JNull == [type |-> "null", v |-> "", pad |-> 0]
JObj(f) == [type |-> "object", v |-> f, pad |-> 0]
JBool(b) == [type |-> "boolean", v |-> IF b THEN "true" ELSE "false", pad |-> 0]
Undefined == [type |-> "undefined", v |-> "", pad |-> 0]
\* localStorage.getItem of a key that was never set
NoItem == [type |-> "absent", v |-> "", pad |-> 0]
\* What JSON.parse throws on text that is not JSON.
JSyntaxError == [type |-> "SyntaxError", v |-> "Unexpected token in JSON", pad |-> 0]

\* s.length
StrLength(x) == Len(x.v) + x.pad
\* The string as the session holds it: a run of trailing blanks is written as one.
Shown(x) == IF x.pad = 0 THEN x.v ELSE x.v \o " "
\* obj[k] of an object, a string, a number or a boolean
Field(obj, k) ==
    IF obj.type = "object" /\ k \in DOMAIN obj.v THEN obj.v[k] ELSE Undefined
\* The value as the session holds it; one that is not a string is written by
\* its JSON text.
Held(x) == IF x.type = "string" THEN Shown(x) ELSE x.v
\* JavaScript truthiness
Truthy(x) ==
    CASE x.type = "string" -> StrLength(x) > 0
      [] x.type = "number" -> x.v # "0"
      [] x.type = "object" -> TRUE
      [] x.type = "boolean" -> x.v = "true"
      [] OTHER -> FALSE

-----------------------------------------------------------------------------
(* Import (ImportButton.tsx, mermaidFileUtils.ts) *)

\* const maxFileSize = 1 * 1024 * 1024
maxFileSize == 1048576
\* const maxLength = 1000000
maxLength == 1000000

allowedExtensions == {"mmd", "txt", "flowilham", "json"}

RECURSIVE AfterLastDot(_)
\* name.split('.').pop()
AfterLastDot(name) ==
    IF \E i \in 1..Len(name) : SubSeq(name, i, i) = "."
    THEN AfterLastDot(SubSeq(name,
                             (CHOOSE i \in 1..Len(name) : SubSeq(name, i, i) = "."
                                 /\ \A j \in 1..(i - 1) : SubSeq(name, j, j) # ".") + 1,
                             Len(name)))
    ELSE name

\* file.name.split('.').pop()?.toLowerCase()
Extension(file) == ToLowerCase(AfterLastDot(file.name))

Thrown(message) == [ok |-> FALSE, message |-> message]
Returned(data) == [ok |-> TRUE, data |-> data]

\* sanitizeImportedCode(code): throws above maxLength, else returns code
sanitizeImportedCode(code) ==
    IF StrLength(code) > maxLength
    THEN Thrown("File size exceeds maximum limit (1MB)")
    ELSE Returned(code)

validateProjectFile(obj) ==
    /\ obj.type = "object"
    /\ Field(obj, "code").type = "string"

\* The try block of parseImportedFile for the project extensions.
ParseProject(file) ==
    LET parsed == file.json
    IN  IF parsed.type = "SyntaxError" THEN Thrown(parsed.v)
        ELSE IF ~validateProjectFile(parsed)
        THEN Thrown("Invalid project file: missing or invalid code field")
        ELSE LET sanitizedCode == sanitizeImportedCode(Field(parsed, "code"))
             IN  IF ~sanitizedCode.ok THEN sanitizedCode
                 ELSE Returned([code |-> sanitizedCode.data,
                                diagramType |-> Field(parsed, "diagramType"),
                                theme |-> Field(parsed, "theme"),
                                title |-> Field(parsed, "title")])

\* The tail of parseImportedFile: the content taken as raw source.
ParseRaw(file) ==
    LET sanitizedCode == sanitizeImportedCode(JStrPad(file.text, file.pad))
    IN  IF ~sanitizedCode.ok THEN sanitizedCode
        ELSE Returned([code |-> sanitizedCode.data,
                       diagramType |-> JStr(detectDiagramType(Shown(sanitizedCode.data))),
                       theme |-> Undefined,
                       title |-> Undefined])

parseImportedFile(file) ==
    LET extension == Extension(file)
    IN  IF extension \in {"flowilham", "json"}
        THEN LET project == ParseProject(file)
             IN  IF project.ok THEN project
                 ELSE IF extension = "json" THEN project
                 ELSE ParseRaw(file)
        ELSE ParseRaw(file)

\* handleFileChange up to the call of onImport: what it hands over, or the
\* message of the error it caught.
ReadFile(file) ==
    IF file.size > maxFileSize THEN Thrown("File size exceeds maximum limit of 1MB")
    ELSE IF Extension(file) = "" \/ Extension(file) \notin allowedExtensions
    THEN Thrown("Invalid file type. Only .mmd, .txt, .flowilham, and .json files are allowed.")
    ELSE parseImportedFile(file)

-----------------------------------------------------------------------------
(* Session operations of useDiagramEditor.  A session is [codeHistory,     *)
(* settings]; dt is the time since the previous accepted set.              *)

\* Mutant: the kind switch sets the template and keeps the history.
setDiagramType_NoClear(sess, diagramType, dt) ==
    [codeHistory |-> HistSet(sess.codeHistory, getDefaultCode(diagramType), dt),
     settings |-> [sess.settings EXCEPT !.diagramType = diagramType]]

\* Mutant: the kind switch clears the history and keeps the text.
setDiagramType_NoSet(sess, diagramType, dt) ==
    [codeHistory |-> HistClear(sess.codeHistory),
     settings |-> [sess.settings EXCEPT !.diagramType = diagramType]]

\* setDiagramType: setSettings, codeHistory.set(newCode), codeHistory.clear()
setDiagramType(sess, diagramType, dt) ==
    LET newCode == getDefaultCode(diagramType)
    IN  [codeHistory |-> HistClear(HistSet(sess.codeHistory, newCode, dt)),
         settings |-> [sess.settings EXCEPT !.diagramType = diagramType]]

\* Mutant: the reset installs the template as a kind switch does.
resetToTemplate_Clears(sess, dt) ==
    [codeHistory |-> HistClear(HistSet(sess.codeHistory,
                                       getDefaultCode(sess.settings.diagramType), dt)),
     settings |-> sess.settings]

\* resetToTemplate: codeHistory.set(getDefaultCode(settings.diagramType))
resetToTemplate(sess, dt) ==
    LET newCode == getDefaultCode(sess.settings.diagramType)
    IN  [codeHistory |-> HistSet(sess.codeHistory, newCode, dt),
         settings |-> sess.settings]

\* Mutant: the import overwrites the title only when the file's title is not empty.
importProject_TruthyTitle(sess, data, dt) ==
    [codeHistory |-> IF Truthy(data.code)
                     THEN HistSet(sess.codeHistory, Shown(data.code), dt)
                     ELSE sess.codeHistory,
     settings |->
        [diagramType |-> IF Truthy(data.diagramType) THEN data.diagramType.v
                         ELSE sess.settings.diagramType,
         theme |-> IF Truthy(data.theme) THEN data.theme.v ELSE sess.settings.theme,
         projectTitle |-> IF Truthy(data.title) THEN data.title.v
                          ELSE sess.settings.projectTitle]]

\* Mutant: the import switches kind the way setDiagramType does.
importProject_AsKindSwitch(sess, data, dt) ==
    IF Truthy(data.diagramType) /\ data.diagramType.v # sess.settings.diagramType
    THEN setDiagramType([codeHistory |-> sess.codeHistory,
                         settings |-> [sess.settings EXCEPT
                            !.theme = IF Truthy(data.theme) THEN data.theme.v ELSE @,
                            !.projectTitle = IF data.title.type # "undefined"
                                             THEN data.title.v ELSE @]],
                        data.diagramType.v, dt)
    ELSE [codeHistory |-> IF Truthy(data.code)
                          THEN HistSet(sess.codeHistory, Shown(data.code), dt)
                          ELSE sess.codeHistory,
          settings |-> [sess.settings EXCEPT
                            !.theme = IF Truthy(data.theme) THEN data.theme.v ELSE @,
                            !.projectTitle = IF data.title.type # "undefined"
                                             THEN data.title.v ELSE @]]

\* importProject(data)
importProject(sess, data, dt) ==
    [codeHistory |-> IF Truthy(data.code)
                     THEN HistSet(sess.codeHistory, Shown(data.code), dt)
                     ELSE sess.codeHistory,
     settings |->
        [diagramType |-> IF Truthy(data.diagramType) THEN data.diagramType.v
                         ELSE sess.settings.diagramType,
         theme |-> IF Truthy(data.theme) THEN data.theme.v ELSE sess.settings.theme,
         projectTitle |-> IF data.title.type # "undefined" THEN data.title.v
                          ELSE sess.settings.projectTitle]]

\* The document the save effect writes: JSON.stringify(state), as JSON.parse
\* reads it back.
SavedState(sess, valid, err) ==
    JObj([code |-> JStr(sess.codeHistory.present),
          diagramType |-> JStr(sess.settings.diagramType),
          theme |-> JStr(sess.settings.theme),
          projectTitle |-> JStr(sess.settings.projectTitle),
          isValid |-> JBool(valid),
          error |-> IF err = Null THEN JNull ELSE JStr(err)])

\* Whether the body of try { JSON.parse(saved); ... parsed.code ... } throws:
\* the text is not JSON, or it is the JSON null, whose properties cannot be read.
LoadThrows(saved) == saved.type \in {"SyntaxError", "null"}

\* if (saved) { try { ... } catch { } }: the block is entered and runs through
LoadReads(saved) == saved.type # "absent" /\ ~LoadThrows(saved)

\* Mutant: a stored text is taken as it is, empty or not.
getInitialCodeFrom_Exact(saved) ==
    IF LoadReads(saved) /\ Field(saved, "code").type = "string"
    THEN Held(Field(saved, "code"))
    ELSE getDefaultCode("flowchart")

\* getInitialCode with a stored document: parsed.code || getDefaultCode('flowchart')
getInitialCodeFrom(saved) ==
    IF LoadReads(saved) /\ Truthy(Field(saved, "code"))
    THEN Held(Field(saved, "code"))
    ELSE getDefaultCode("flowchart")

\* The settings initializer with a stored document.
initialSettingsFrom(saved) ==
    IF LoadReads(saved)
    THEN [diagramType |-> IF Truthy(Field(saved, "diagramType"))
                          THEN Held(Field(saved, "diagramType")) ELSE "flowchart",
          theme |-> IF Truthy(Field(saved, "theme")) THEN Held(Field(saved, "theme"))
                    ELSE "default",
          projectTitle |-> IF Truthy(Field(saved, "projectTitle"))
                           THEN Held(Field(saved, "projectTitle")) ELSE ""]
    ELSE [diagramType |-> "flowchart", theme |-> "default", projectTitle |-> ""]

-----------------------------------------------------------------------------
(* Files offered to the import.  A file is [name, size, text, pad, json]:   *)
(* its content is text followed by pad blank characters, size is its length *)
(* in bytes, json is what JSON.parse makes of the content.                  *)

\* A file of source text; wide is the number of bytes beyond one per character.
RawFile(name, text, pad, wide) ==
    [name |-> name, size |-> Len(text) + pad + wide, text |-> text, pad |-> pad,
     json |-> JSyntaxError]

\* A file of one-byte characters whose content is the JSON text of obj.
JsonFile(name, text, pad, obj) ==
    [name |-> name, size |-> Len(text) + pad, text |-> text, pad |-> pad, json |-> obj]

\* The document of a project file carrying the optional fields named in K.
ProjectDoc(code, K, title) ==
    JObj([k \in {"code"} \cup K |->
            CASE k = "code" -> code
              [] k = "diagramType" -> JStr("sequence")
              [] k = "theme" -> JStr("dark")
              [] k = "title" -> JStr(title)
              [] OTHER -> JNum("7")])

\* JSON.stringify of ProjectDoc(JStr(code), K, title)
ProjectText(code, K, title) ==
    "{\"code\":\"" \o code \o "\""
    \o (IF "diagramType" \in K THEN ",\"diagramType\":\"sequence\"" ELSE "")
    \o (IF "theme" \in K THEN ",\"theme\":\"dark\"" ELSE "")
    \o (IF "title" \in K THEN ",\"title\":\"" \o title \o "\"" ELSE "")
    \o (IF "zoom" \in K THEN ",\"zoom\":7" ELSE "")
    \o "}"

ProjectFile(name, code, K, title) ==
    JsonFile(name, ProjectText(code, K, title), 0, ProjectDoc(JStr(code), K, title))

OptionalFields == {"diagramType", "theme", "title"}

\* A file name that tells which optional fields the file carries.
ProjectName(K) ==
    "p" \o (IF "diagramType" \in K THEN "-kind" ELSE "")
        \o (IF "theme" \in K THEN "-theme" ELSE "")
        \o (IF "title" \in K THEN "-title" ELSE "") \o ".json"

\* Well-formed project files: every choice of optional fields, an empty title,
\* an unknown field, both project extensions.
GoodProjectFiles ==
    {ProjectFile(ProjectName(K), "pie title X", K, "Plan") : K \in SUBSET OptionalFields}
    \cup {ProjectFile("q.flowilham", "pie title X", OptionalFields, ""),
          ProjectFile("r.flowilham", "gantt", {"theme", "zoom"}, ""),
          ProjectFile("s.JSON", "pie title X", {"zoom"}, ""),
          ProjectFile("t.json", "", {"title"}, "Plan")}

\* Project files that are not valid JSON or carry no textual code.
BadProjectFiles ==
    {JsonFile("b1.json", "{oops", 0, JSyntaxError),
     JsonFile("b2.json", "{\"theme\":\"dark\"}", 0, JObj([theme |-> JStr("dark")])),
     JsonFile("b3.json", "{\"code\":5}", 0, JObj([code |-> JNum("5")])),
     JsonFile("b4.json", "null", 0, JNull),
     JsonFile("b5.flowilham", "{oops", 0, JSyntaxError),
     JsonFile("b6.flowilham", "{\"theme\":\"dark\"}", 0, JObj([theme |-> JStr("dark")]))}

RawFiles ==
    {RawFile("a.mmd", "graph LR", 0, 0),
     RawFile("b.TXT", "sequenceDiagram\nA->>B: hi", 0, 0),
     RawFile("c.mmd", "", 0, 0)}

\* Files with a name the import does not take.
MisnamedFiles == {RawFile("d.svg", "graph LR", 0, 0), RawFile("diagram", "graph LR", 0, 0)}

\* Files at the limits.  The content of m0 has maxLength characters of one byte
\* each, that of m1 one more; w0 has maxLength characters and more than
\* maxFileSize bytes; j1 is a project file of maxLength + 1 characters whose code
\* is short; j2 is a project file whose code has maxLength + 1 characters; z1 has
\* maxFileSize + 1 bytes.
LimitFiles ==
    {RawFile("m0.mmd", "pie title M0", maxLength - 12, 0),
     RawFile("m1.mmd", "pie title M1", maxLength - 12 + 1, 0),
     RawFile("w0.mmd", "pie title W0", maxLength - 12, maxFileSize - maxLength + 1),
     JsonFile("j1.json", "{\"code\":\"pie title J1\"}", maxLength + 1 - 23,
              JObj([code |-> JStr("pie title J1")])),
     JsonFile("j2.json", "{\"code\":\"pie title J2 \"}", maxLength + 1 - 13,
              JObj([code |-> JStrPad("pie title J2", maxLength + 1 - 12)])),
     RawFile("z1.txt", "pie title Z1", maxFileSize + 1 - 12, 0)}

\* A project file whose theme is none of the declared ones.
UndeclaredFiles ==
    {JsonFile("u.json", "{\"code\":\"gantt\",\"theme\":\"neon\"}", 0,
              JObj([code |-> JStr("gantt"), theme |-> JStr("neon")]))}

ImportFiles == GoodProjectFiles \cup BadProjectFiles \cup RawFiles \cup MisnamedFiles
               \cup LimitFiles \cup UndeclaredFiles

\* The number of characters of the file's content.
Chars(file) == Len(file.text) + file.pad

\* The file of the given name.
FileNamed(name) == CHOOSE file \in ImportFiles : file.name = name

\* What reading each of the files comes to.
ReadOutcome == [name \in {file.name : file \in ImportFiles} |-> ReadFile(FileNamed(name))]

-----------------------------------------------------------------------------
(* Regular expressions of handleRename (FlowEditor.tsx).  A pattern is a    *)
(* sequence of atoms around the literal old text: the atoms 1..g1 make up   *)
(* $1 (with a leading ^, which has no width), atom g1 + 1 is the old text,  *)
(* the atoms after it make up $2.  Positions are 1-based; a match from      *)
(* position i ends at the position of the first character after it.         *)

CharAt(s, i) == SubSeq(s, i, i)

Lit(t) == [k |-> "lit", t |-> t, min |-> 0]
Run(cls, min) == [k |-> "run", t |-> cls, min |-> min]
Bol == [k |-> "bol", t |-> "", min |-> 0]
Eol == [k |-> "eol", t |-> "", min |-> 0]
SpaceOrEol == [k |-> "spaceOrEol", t |-> "", min |-> 0]
WordBoundary == [k |-> "wb", t |-> "", min |-> 0]

Digits == {"0", "1", "2", "3", "4", "5", "6", "7", "8", "9"}
\* \w
IsWordChar(c) ==
    \/ \E n \in 1..26 : UpperLetters[n] = c \/ LowerLetters[n] = c
    \/ c \in Digits
    \/ c = "_"

\* \s, [-<>], [^:]
InClass(cls, c) ==
    CASE cls = "space" -> IsSpace(c)
      [] cls = "arrow" -> c \in {"-", "<", ">"}
      [] cls = "notColon" -> c # ":"

RECURSIVE RunLength(_, _, _)
\* The number of characters of the class from position i on.
RunLength(cls, s, i) ==
    IF i <= Len(s) /\ InClass(cls, CharAt(s, i)) THEN 1 + RunLength(cls, s, i + 1) ELSE 0

\* ^ and $ under the m flag, \b
AtBol(s, i) == i = 1 \/ CharAt(s, i - 1) = "\n"
AtEol(s, i) == i = Len(s) + 1 \/ CharAt(s, i) = "\n"
AtWordBoundary(s, i) ==
    (i > 1 /\ IsWordChar(CharAt(s, i - 1))) # (i <= Len(s) /\ IsWordChar(CharAt(s, i)))

\* The positions where a match of the atom from position i can end, in the
\* order the matcher tries them: a greedy run gives back one character at a
\* time, (\s|$) tries \s first.  ci is the i flag.
AtomEnds(a, s, i, ci) ==
    CASE a.k = "lit" ->
           IF /\ i + Len(a.t) - 1 <= Len(s)
              /\ LET found == SubSeq(s, i, i + Len(a.t) - 1)
                 IN  IF ci THEN ToLowerCase(found) = ToLowerCase(a.t) ELSE found = a.t
           THEN <<i + Len(a.t)>> ELSE <<>>
      [] a.k = "run" ->
           LET m == RunLength(a.t, s, i)
           IN  IF m < a.min THEN <<>> ELSE [n \in 1..(m - a.min + 1) |-> i + m - n + 1]
      [] a.k = "bol" -> IF AtBol(s, i) THEN <<i>> ELSE <<>>
      [] a.k = "eol" -> IF AtEol(s, i) THEN <<i>> ELSE <<>>
      [] a.k = "spaceOrEol" ->
           (IF i <= Len(s) /\ IsSpace(CharAt(s, i)) THEN <<i + 1>> ELSE <<>>)
           \o (IF AtEol(s, i) THEN <<i>> ELSE <<>>)
      [] a.k = "wb" -> IF AtWordBoundary(s, i) THEN <<i>> ELSE <<>>

NoMatch == [ok |-> FALSE, ends |-> <<>>]

RECURSIVE MatchFrom(_, _, _, _, _)
RECURSIVE FirstEnd(_, _, _, _, _, _)
\* The first of the end positions cands[n], cands[n + 1], ... of atom k from
\* which the atoms after it match, with the end positions of those.
FirstEnd(atoms, k, s, ci, cands, n) ==
    IF n > Len(cands) THEN NoMatch
    ELSE LET rest == MatchFrom(atoms, k + 1, s, cands[n], ci)
         IN  IF rest.ok THEN [ok |-> TRUE, ends |-> <<cands[n]>> \o rest.ends]
             ELSE FirstEnd(atoms, k, s, ci, cands, n + 1)

\* The first way, in the matcher's order, to match the atoms k.. from position
\* i: the end position of each of them.
MatchFrom(atoms, k, s, i, ci) ==
    IF k > Len(atoms) THEN [ok |-> TRUE, ends |-> <<>>]
    ELSE FirstEnd(atoms, k, s, ci, AtomEnds(atoms[k], s, i, ci), 1)

RECURSIVE Leftmost(_, _, _)
\* The leftmost match of the pattern starting at or after position from.
Leftmost(p, s, from) ==
    IF from > Len(s) + 1 THEN [ok |-> FALSE, start |-> 0, ends |-> <<>>]
    ELSE LET m == MatchFrom(p.atoms, 1, s, from, p.ci)
         IN  IF m.ok THEN [ok |-> TRUE, start |-> from, ends |-> m.ends]
             ELSE Leftmost(p, s, from + 1)

\* pattern.test(s) with lastIndex 0
Test(p, s) == Leftmost(p, s, 1).ok

RECURSIVE Expand(_, _, _, _)
\* The replacement text that String.prototype.replace makes of a template:
\* $$ is a dollar sign, $& the match, $1 and $2 the groups; other characters
\* stand for themselves.  ($` and $' do not occur in the templates used here.)
Expand(template, whole, g1, g2) ==
    IF Len(template) = 0 THEN ""
    ELSE IF Len(template) >= 2 /\ CharAt(template, 1) = "$"
                /\ CharAt(template, 2) \in {"$", "&", "1", "2"}
         THEN (CASE CharAt(template, 2) = "$" -> "$"
                 [] CharAt(template, 2) = "&" -> whole
                 [] CharAt(template, 2) = "1" -> g1
                 [] CharAt(template, 2) = "2" -> g2)
              \o Expand(SubSeq(template, 3, Len(template)), whole, g1, g2)
         ELSE CharAt(template, 1)
              \o Expand(SubSeq(template, 2, Len(template)), whole, g1, g2)

RECURSIVE ReplaceFrom(_, _, _, _)
\* The text from position from on with the match m, the leftmost one from
\* there, replaced and the search continued behind it; after an empty match
\* the search goes on one character further.
ReplaceMatch(p, s, from, template, m) ==
    LET end == m.ends[Len(m.ends)]
        e1 == IF p.g1 = 0 THEN m.start ELSE m.ends[p.g1]
        e2 == m.ends[p.g1 + 1]
        whole == SubSeq(s, m.start, end - 1)
        g1 == IF p.groups THEN SubSeq(s, m.start, e1 - 1) ELSE "$1"
        g2 == IF p.groups THEN SubSeq(s, e2, end - 1) ELSE "$2"
    IN  SubSeq(s, from, m.start - 1)
        \o Expand(template, whole, g1, g2)
        \o (IF end > m.start THEN ReplaceFrom(p, s, end, template)
            ELSE IF end > Len(s) THEN ""
            ELSE CharAt(s, end) \o ReplaceFrom(p, s, end + 1, template))

\* s.replace(pattern, template) under the g flag, from position from on
ReplaceFrom(p, s, from, template) ==
    LET m == Leftmost(p, s, from)
    IN  IF m.ok THEN ReplaceMatch(p, s, from, template, m) ELSE SubSeq(s, from, Len(s))

Replace(p, s, template) == ReplaceFrom(p, s, 1, template)

Pattern(atoms, g1, ci) == [atoms |-> atoms, g1 |-> g1, ci |-> ci, groups |-> TRUE]

\* const patterns = [...], the old text escaped
patterns(oldText) ==
    <<Pattern(<<Lit("participant"), Run("space", 1), Lit(oldText), SpaceOrEol>>, 2, FALSE),
      Pattern(<<Lit("actor"), Run("space", 1), Lit(oldText), SpaceOrEol>>, 2, FALSE),
      Pattern(<<Lit("["), Lit(oldText), Lit("]")>>, 1, FALSE),
      Pattern(<<Lit("("), Lit(oldText), Lit(")")>>, 1, FALSE),
      Pattern(<<Lit("{"), Lit(oldText), Lit("}")>>, 1, FALSE),
      Pattern(<<Bol, Run("space", 0), Lit(oldText), Run("space", 0), Run("arrow", 1)>>,
              2, FALSE),
      Pattern(<<Run("arrow", 1), Run("space", 0), Lit(oldText), Run("space", 0), Lit(":")>>,
              2, FALSE),
      Pattern(<<Lit(":"), Run("space", 0), Lit(oldText), Run("space", 0), Eol>>, 2, FALSE),
      Pattern(<<Lit("Note"), Run("notColon", 0), Lit(":"), Run("space", 0), Lit(oldText),
                Run("space", 0), Eol>>, 4, TRUE)>>

\* new RegExp(`\\b${escapedOldText}\\b`, 'g')
fallbackPattern(oldText) ==
    [atoms |-> <<WordBoundary, Lit(oldText), WordBoundary>>, g1 |-> 1, ci |-> FALSE,
     groups |-> FALSE]

RECURSIVE TryPatterns_NoBreak(_, _, _, _)
\* Mutant: the loop goes on after a pattern has matched.
TryPatterns_NoBreak(ps, k, code, newText) ==
    IF k > Len(ps) THEN [replaced |-> FALSE, newCode |-> code]
    ELSE IF Test(ps[k], code)
         THEN LET here == Replace(ps[k], code, "$1" \o newText \o "$2")
              IN  [replaced |-> TRUE,
                   newCode |-> TryPatterns_NoBreak(ps, k + 1, here, newText).newCode]
         ELSE TryPatterns_NoBreak(ps, k + 1, code, newText)

RECURSIVE TryPatterns(_, _, _, _)
\* for (const pattern of patterns) { if (pattern.test(newCode)) { ...; break } }
TryPatterns(ps, k, code, newText) ==
    IF k > Len(ps) THEN [replaced |-> FALSE, newCode |-> code]
    ELSE IF Test(ps[k], code)
         THEN [replaced |-> TRUE, newCode |-> Replace(ps[k], code, "$1" \o newText \o "$2")]
         ELSE TryPatterns(ps, k + 1, code, newText)

\* The fallback: every whole-word occurrence of the old text
Fallback(code, oldText, newText) ==
    IF Test(fallbackPattern(oldText), code)
    THEN [replaced |-> TRUE, newCode |-> Replace(fallbackPattern(oldText), code, newText)]
    ELSE [replaced |-> FALSE, newCode |-> code]

\* if (!replaced) { ... }
OrFallback(byPattern, code, oldText, newText) ==
    IF byPattern.replaced THEN byPattern ELSE Fallback(code, oldText, newText)

\* if (replaced && newCode !== code) setCode(newCode)
RenameResult(code, result) ==
    [call |-> result.replaced /\ result.newCode # code, newCode |-> result.newCode]

\* Mutant: an empty new text is taken as a name.
handleRename_AllowsEmpty(code, oldText, newText) ==
    IF oldText = "" \/ oldText = newText
    THEN [call |-> FALSE, newCode |-> code]
    ELSE RenameResult(code, OrFallback(TryPatterns(patterns(oldText), 1, code, newText),
                                       code, oldText, newText))

\* handleRename(oldText, newText) on the current code: whether setCode is
\* called, and with what.
handleRename(code, oldText, newText) ==
    IF oldText = "" \/ newText = "" \/ oldText = newText
    THEN [call |-> FALSE, newCode |-> code]
    ELSE RenameResult(code, OrFallback(TryPatterns(patterns(oldText), 1, code, newText),
                                       code, oldText, newText))

-----------------------------------------------------------------------------
(* useDiagramEditor *)

\* Inputs of Spec
CodeInputs == {FlowchartTemplate, " ", "graph x", "gra"}
ThemeInputs == {"default", "dark"}

NoTimer == [left |-> -1, code |-> "", theme |-> ""]
NoOp == [op |-> "none", val |-> "", prev |-> "", futLen |-> 0]

\* const codeHistory = useHistory<string>(getInitialCode()), nothing stored
getInitialCode == FlowchartTemplate

initialSettings == [diagramType |-> "flowchart", theme |-> "default", projectTitle |-> ""]

\* Mutant: setCode also clears the history, as setDiagramType does.
setCode_ThenClear(h, code, dt) ==
    [past |-> <<>>, present |-> HistSet(h, code, dt).present, future |-> <<>>]

\* setCode: codeHistory.set(code), dt ms after the previous accepted set
setCode(h, code, dt) == HistSet(h, code, dt)

\* Mutant: the effect runs on every render, also when no dependency changed.
DebounceEffect_Always(oldCode, oldTheme, newCode, newTheme, timer) ==
    [left |-> DEBOUNCE_MS, code |-> newCode, theme |-> newTheme]

\* Mutant: the effect has no cleanup and does not cancel a pending timer.
DebounceEffect_KeepsPending(oldCode, oldTheme, newCode, newTheme, timer) ==
    IF newCode = oldCode /\ newTheme = oldTheme THEN timer
    ELSE IF timer.left >= 0 THEN timer
    ELSE [left |-> DEBOUNCE_MS, code |-> newCode, theme |-> newTheme]

\* Mutant: the theme is not among the effect's dependencies.
DebounceEffect_CodeOnly(oldCode, oldTheme, newCode, newTheme, timer) ==
    IF newCode = oldCode THEN timer
    ELSE [left |-> DEBOUNCE_MS, code |-> newCode, theme |-> newTheme]

\* The debounced-render effect, deps [codeHistory.state, settings.theme]:
\* when a dependency changed, the cleanup clears the pending timer and the
\* effect arms a new one; otherwise the effect does not run.
DebounceEffect(oldCode, oldTheme, newCode, newTheme, timer) ==
    IF newCode = oldCode /\ newTheme = oldTheme THEN timer
    ELSE [left |-> DEBOUNCE_MS, code |-> newCode, theme |-> newTheme]

themeBackgrounds(theme) ==
    CASE theme = "dark" -> "#0f172a"
      [] theme = "forest" -> "#ecfdf5"
      [] theme = "neutral" -> "#f5f5f5"
      [] OTHER -> "#ffffff"

HasAttr(element, n) == \E i \in 1..Len(element.attrs) : element.attrs[i].name = n

IsExportBg(element) ==
    /\ element.tag = "rect"
    /\ \E i \in 1..Len(element.attrs) :
          element.attrs[i] = Attr("class", "export-bg")

RECURSIVE HasExportBg(_)
\* svgElement.querySelector('rect.export-bg') finds one
HasExportBg(nodes) ==
    /\ Len(nodes) > 0
    /\ \/ IsExportBg(nodes[1])
       \/ HasExportBg(nodes[1].children)
       \/ HasExportBg(Tail(nodes))

\* prepareSvgForExport(svg, true)
prepareSvgForExport(svg, bgColor) ==
    LET found == QuerySelector(svg, "svg")
    IN  IF Len(found) = 0 THEN svg
        ELSE LET el == found[1]
                 withNs == IF HasAttr(el, "xmlns") THEN el.attrs
                           ELSE Append(el.attrs, Attr("xmlns", "http://www.w3.org/2000/svg"))
                 bgRect == Elem("rect",
                                <<Attr("class", "export-bg"), Attr("width", "100%"),
                                  Attr("height", "100%"), Attr("fill", bgColor)>>,
                                <<>>)
             IN  <<[tag |-> el.tag,
                    attrs |-> withNs,
                    children |-> IF HasExportBg(el.children) THEN el.children
                                 ELSE <<bgRect>> \o el.children]>>

\* What DiagramPreview inserts into the live document.
PreviewHtml ==
    IF isValid /\ svgOutput # EmptyMarkup THEN sanitizeSvg(svgOutput) ELSE EmptyMarkup

InitEditor ==
    /\ sinceSet = BATCH_THRESHOLD
    /\ settings = initialSettings
    /\ isValid = TRUE
    /\ error = Null
    /\ svgOutput = EmptyMarkup
    /\ isRendering = FALSE
    \* the debounced-render effect runs once on mount
    /\ debounce = [left |-> DEBOUNCE_MS, code |-> getInitialCode, theme |-> initialSettings.theme]
    /\ inflight = {}
    /\ renderCalls = <<>>
    /\ exportedSvg = EmptyMarkup
    /\ opCount = 0
    /\ lastOp = NoOp
    /\ lastFire = "none"
    /\ burst = <<>>
    /\ sinceCall = DEBOUNCE_MS
    /\ burstRenders = <<>>

InitHistoryVars ==
    /\ hNext = 1
    /\ hDetours = 0
    /\ hLog = <<>>

InitSanVars ==
    /\ sanInput = EmptyMarkup
    /\ sanOutput = EmptyMarkup
    /\ sanPhase = "idle"

NoToast == [title |-> "", description |-> ""]

InitSessionVars ==
    /\ toast = NoToast
    /\ before = [codeHistory |-> NewHistory(getInitialCode), settings |-> initialSettings]
    \* nothing was stored; the save effect runs once on mount
    /\ stored = SavedState([codeHistory |-> NewHistory(getInitialCode),
                            settings |-> initialSettings], TRUE, Null)

InitFileVars ==
    /\ isExporting = FALSE
    /\ exporting = <<>>
    /\ reading = <<>>
    /\ menuOpen = FALSE
    /\ exportedCode = <<>>

InitPreviewVars ==
    /\ scale = 100
    /\ pan = <<0, 0>>

Init ==
    /\ codeHistory = NewHistory(getInitialCode)
    /\ InitEditor
    /\ InitHistoryVars
    /\ InitSanVars
    /\ InitSessionVars
    /\ InitFileVars
    /\ InitPreviewVars

\* The save effect: whenever the text, the settings, isValid or error have
\* changed, the state is written under STORAGE_KEY.
SaveEffect ==
    stored' = IF <<codeHistory'.present, settings', isValid', error'>>
                 = <<codeHistory.present, settings, isValid, error>>
              THEN stored
              ELSE SavedState([codeHistory |-> codeHistory', settings |-> settings'],
                              isValid', error')

\* A user operation other than setCode ends the current run of setCode calls.
EndBurst == burst' = <<>> /\ burstRenders' = <<>> /\ UNCHANGED sinceCall

\* setCode(code), as one of at most n operations
SetCodeWithin(code, n) ==
    /\ opCount < n
    /\ LET h == setCode(codeHistory, code, sinceSet)
           inBurst == burst # <<>> /\ sinceCall < DEBOUNCE_MS
           entry == [code |-> code, changed |-> h.present # codeHistory.present]
       IN  /\ codeHistory' = h
           /\ sinceSet' = IF HistAccepts(codeHistory, code) THEN 0 ELSE sinceSet
           /\ debounce' = DebounceEffect(codeHistory.present, settings.theme,
                                         h.present, settings.theme, debounce)
           /\ burst' = IF inBurst THEN Append(burst, entry) ELSE <<entry>>
           /\ burstRenders' = IF inBurst THEN burstRenders ELSE <<>>
           /\ sinceCall' = 0
    /\ opCount' = opCount + 1
    /\ lastOp' = [op |-> "setCode", val |-> code, prev |-> codeHistory.present,
                  futLen |-> Len(codeHistory.future)]
    /\ UNCHANGED <<settings, isValid, error, svgOutput, isRendering, inflight,
                   renderCalls, exportedSvg, lastFire>>
    /\ UNCHANGED <<historyVars, sanVars, sessionVars, fileVars, previewVars>>
    /\ SaveEffect

SetCode(code) == SetCodeWithin(code, MaxOps)

\* Inputs of SpecRename: the texts found in storage on mount, the text typed
\* into the editor, and the arguments of handleRename.  The preview passes on
\* only a non-empty new text that differs from the old one; the handler makes
\* the same checks itself, and the requests cover them.
RenameSources == {"participant Alice\nAlice->>Bob: hi", "A[Alice] --> B(Alice)",
                  "Note over A: Hello", " ", "gra"}
RenameEdits == {"x Alice y"}
RenameRequests == {<<"Alice", "Carol">>, <<"hello", "Hello">>, <<"Alice", "Alice">>,
                   <<"", "Carol">>, <<"Alice", "">>}

RECURSIVE RenameClosure(_)
\* The texts that renames make of the given ones.
RenameClosure(texts) ==
    LET more == texts \cup {handleRename(code, request[1], request[2]).newCode :
                               code \in texts, request \in RenameRequests}
    IN  IF more = texts THEN texts ELSE RenameClosure(more)

\* The texts the editor can hold in SpecRename
RenameTexts == RenameClosure(RenameSources \cup RenameEdits)

\* handleRename, worked out once for each text and request
RenameOutcome ==
    [code \in RenameTexts |->
        [request \in RenameRequests |-> handleRename(code, request[1], request[2])]]

\* handleRename(oldText, newText), as one of at most n operations: the text
\* is rewritten and, if that changed it, handed to setCode.
Rename(oldText, newText, n) ==
    /\ opCount < n
    /\ LET r == RenameOutcome[codeHistory.present][<<oldText, newText>>]
           h == IF r.call THEN setCode(codeHistory, r.newCode, sinceSet) ELSE codeHistory
           inBurst == burst # <<>> /\ sinceCall < DEBOUNCE_MS
           entry == [code |-> r.newCode, changed |-> h.present # codeHistory.present]
       IN  /\ codeHistory' = h
           /\ sinceSet' = IF r.call /\ HistAccepts(codeHistory, r.newCode) THEN 0
                          ELSE sinceSet
           /\ debounce' = DebounceEffect(codeHistory.present, settings.theme,
                                         h.present, settings.theme, debounce)
           /\ burst' = IF ~r.call THEN burst
                       ELSE IF inBurst THEN Append(burst, entry) ELSE <<entry>>
           /\ burstRenders' = IF ~r.call \/ inBurst THEN burstRenders ELSE <<>>
           /\ sinceCall' = IF r.call THEN 0 ELSE sinceCall
    /\ opCount' = opCount + 1
    /\ lastOp' = [op |-> "rename", val |-> newText, prev |-> codeHistory.present,
                  futLen |-> Len(codeHistory.future), old |-> oldText]
    /\ UNCHANGED <<settings, isValid, error, svgOutput, isRendering, inflight,
                   renderCalls, exportedSvg, lastFire>>
    /\ UNCHANGED <<historyVars, sanVars, sessionVars, fileVars, previewVars>>
    /\ SaveEffect

\* undo(), as one of at most n operations
UndoWithin(n) ==
    /\ opCount < n
    /\ LET h == HistUndo(codeHistory)
       IN  /\ codeHistory' = h
           /\ debounce' = DebounceEffect(codeHistory.present, settings.theme,
                                         h.present, settings.theme, debounce)
    /\ opCount' = opCount + 1
    /\ lastOp' = [op |-> "undo", val |-> "", prev |-> codeHistory.present,
                  futLen |-> Len(codeHistory.future)]
    /\ EndBurst
    /\ UNCHANGED <<sinceSet, settings, isValid, error, svgOutput, isRendering, inflight,
                   renderCalls, exportedSvg, lastFire>>
    /\ UNCHANGED <<historyVars, sanVars, sessionVars, fileVars, previewVars>>
    /\ SaveEffect

Undo == UndoWithin(MaxOps)

Redo ==
    /\ opCount < MaxOps
    /\ LET h == HistRedo(codeHistory)
       IN  /\ codeHistory' = h
           /\ debounce' = DebounceEffect(codeHistory.present, settings.theme,
                                         h.present, settings.theme, debounce)
    /\ opCount' = opCount + 1
    /\ lastOp' = [op |-> "redo", val |-> "", prev |-> codeHistory.present,
                  futLen |-> Len(codeHistory.future)]
    /\ EndBurst
    /\ UNCHANGED <<sinceSet, settings, isValid, error, svgOutput, isRendering, inflight,
                   renderCalls, exportedSvg, lastFire>>
    /\ UNCHANGED <<historyVars, sanVars, sessionVars, fileVars, previewVars>>
    /\ SaveEffect

SetTheme(theme) ==
    /\ opCount < MaxOps
    /\ settings' = [settings EXCEPT !.theme = theme]
    /\ debounce' = DebounceEffect(codeHistory.present, settings.theme,
                                  codeHistory.present, theme, debounce)
    /\ opCount' = opCount + 1
    /\ lastOp' = [op |-> "setTheme", val |-> theme, prev |-> codeHistory.present,
                  futLen |-> Len(codeHistory.future)]
    /\ EndBurst
    /\ UNCHANGED <<codeHistory, sinceSet, isValid, error, svgOutput, isRendering,
                   inflight, renderCalls, exportedSvg, lastFire>>
    /\ UNCHANGED <<historyVars, sanVars, sessionVars, fileVars, previewVars>>
    /\ SaveEffect

\* handleExport('svg')
ExportSvg ==
    /\ opCount < MaxOps
    /\ exportedSvg' = IF svgOutput = EmptyMarkup \/ ~isValid THEN exportedSvg
                      ELSE prepareSvgForExport(svgOutput, themeBackgrounds(settings.theme))
    /\ opCount' = opCount + 1
    /\ lastOp' = [op |-> "export", val |-> "", prev |-> codeHistory.present,
                  futLen |-> Len(codeHistory.future)]
    /\ EndBurst
    /\ UNCHANGED <<codeHistory, sinceSet, settings, isValid, error, svgOutput,
                   isRendering, debounce, inflight, renderCalls, lastFire>>
    /\ UNCHANGED <<historyVars, sanVars, sessionVars, fileVars, previewVars>>
    /\ SaveEffect

\* Time passes: TickMs, or up to the instant the pending timer is due.
Tick ==
    /\ debounce = NoTimer \/ debounce.left > 0
    /\ debounce # NoTimer \/ sinceSet < BATCH_THRESHOLD \/ sinceCall < DEBOUNCE_MS
    /\ LET d == IF debounce = NoTimer THEN TickMs ELSE Min(TickMs, debounce.left)
       IN  /\ sinceSet' = Min(BATCH_THRESHOLD, sinceSet + d)
           /\ sinceCall' = Min(DEBOUNCE_MS, sinceCall + d)
           /\ debounce' = IF debounce = NoTimer THEN NoTimer
                          ELSE [debounce EXCEPT !.left = debounce.left - d]
    /\ UNCHANGED <<codeHistory, settings, isValid, error, svgOutput, isRendering,
                   inflight, renderCalls, exportedSvg, opCount, lastOp, lastFire,
                   burst, burstRenders>>
    /\ UNCHANGED <<historyVars, sanVars, sessionVars, fileVars, previewVars>>
    /\ SaveEffect

\* Mutant: the early return clears the output but leaves validity alone.
RenderBlank_KeepsValidity ==
    /\ debounce # NoTimer /\ debounce.left = 0
    /\ Trim(debounce.code) = ""
    /\ svgOutput' = EmptyMarkup
    /\ debounce' = NoTimer
    /\ lastFire' = "blank"
    /\ UNCHANGED <<codeHistory, sinceSet, settings, isValid, error, isRendering, inflight,
                   renderCalls, exportedSvg, opCount, lastOp, burst, sinceCall, burstRenders>>
    /\ UNCHANGED <<historyVars, sanVars, sessionVars, fileVars, previewVars>>
    /\ SaveEffect

\* The timer fires and renderDiagram takes its early return: blank source.
RenderBlank ==
    /\ debounce # NoTimer /\ debounce.left = 0
    /\ Trim(debounce.code) = ""
    /\ svgOutput' = EmptyMarkup
    /\ isValid' = TRUE
    /\ error' = Null
    /\ debounce' = NoTimer
    /\ lastFire' = "blank"
    /\ UNCHANGED <<codeHistory, sinceSet, settings, isRendering, inflight, renderCalls,
                   exportedSvg, opCount, lastOp, burst, sinceCall, burstRenders>>
    /\ UNCHANGED <<historyVars, sanVars, sessionVars, fileVars, previewVars>>
    /\ SaveEffect

\* The timer fires and renderDiagram calls mermaid.render.
RenderInvoke ==
    /\ debounce # NoTimer /\ debounce.left = 0
    /\ Trim(debounce.code) # ""
    /\ isRendering' = TRUE
    /\ inflight' = inflight \cup {[id |-> Len(renderCalls) + 1,
                                   code |-> debounce.code, theme |-> debounce.theme,
                                   svgAt |-> svgOutput]}
    /\ renderCalls' = Append(renderCalls, [code |-> debounce.code, theme |-> debounce.theme])
    /\ burstRenders' = IF burst # <<>> THEN Append(burstRenders, debounce.code)
                       ELSE burstRenders
    /\ debounce' = NoTimer
    /\ lastFire' = "call"
    /\ UNCHANGED <<codeHistory, sinceSet, settings, isValid, error, svgOutput,
                   exportedSvg, opCount, lastOp, burst, sinceCall>>
    /\ UNCHANGED <<historyVars, sanVars, sessionVars, fileVars, previewVars>>
    /\ SaveEffect

\* Mutant: a success stores the markup prepared for export.
RenderResolve_StoresPrepared(r) ==
    /\ r \in inflight
    /\ MermaidRender(r.code, r.theme).ok
    /\ inflight' = inflight \ {r}
    /\ svgOutput' = prepareSvgForExport(MermaidRender(r.code, r.theme).svg,
                                        themeBackgrounds(r.theme))
    /\ isValid' = TRUE
    /\ error' = Null
    /\ isRendering' = FALSE
    /\ UNCHANGED <<codeHistory, sinceSet, settings, debounce, renderCalls, exportedSvg,
                   opCount, lastOp, lastFire, burst, sinceCall, burstRenders>>
    /\ UNCHANGED <<historyVars, sanVars, sessionVars, fileVars, previewVars>>
    /\ SaveEffect

\* Mutant: a success leaves the error message alone.
RenderResolve_KeepsError(r) ==
    /\ r \in inflight
    /\ MermaidRender(r.code, r.theme).ok
    /\ inflight' = inflight \ {r}
    /\ svgOutput' = MermaidRender(r.code, r.theme).svg
    /\ isValid' = TRUE
    /\ isRendering' = FALSE
    /\ UNCHANGED <<codeHistory, sinceSet, settings, debounce, renderCalls, exportedSvg,
                   opCount, lastOp, lastFire, burst, sinceCall, burstRenders, error>>
    /\ UNCHANGED <<historyVars, sanVars, sessionVars, fileVars, previewVars>>
    /\ SaveEffect

\* An in-flight render call resolves: the try block's continuation, then finally.
RenderResolve(r) ==
    /\ r \in inflight
    /\ MermaidRender(r.code, r.theme).ok
    /\ inflight' = inflight \ {r}
    /\ svgOutput' = MermaidRender(r.code, r.theme).svg
    /\ isValid' = TRUE
    /\ error' = Null
    /\ isRendering' = FALSE
    /\ UNCHANGED <<codeHistory, sinceSet, settings, debounce, renderCalls, exportedSvg,
                   opCount, lastOp, lastFire, burst, sinceCall, burstRenders>>
    /\ UNCHANGED <<historyVars, sanVars, sessionVars, fileVars, previewVars>>
    /\ SaveEffect

\* Mutant: a failure also clears the output.
RenderReject_ClearsOutput(r) ==
    /\ r \in inflight
    /\ ~MermaidRender(r.code, r.theme).ok
    /\ inflight' = inflight \ {r}
    /\ svgOutput' = EmptyMarkup
    /\ isValid' = FALSE
    /\ error' = MermaidRender(r.code, r.theme).message
    /\ isRendering' = FALSE
    /\ UNCHANGED <<codeHistory, sinceSet, settings, debounce, renderCalls,
                   exportedSvg, opCount, lastOp, lastFire, burst, sinceCall, burstRenders>>
    /\ UNCHANGED <<historyVars, sanVars, sessionVars, fileVars, previewVars>>
    /\ SaveEffect

\* An in-flight render call rejects: the catch block, then finally.
RenderReject(r) ==
    /\ r \in inflight
    /\ ~MermaidRender(r.code, r.theme).ok
    /\ inflight' = inflight \ {r}
    /\ isValid' = FALSE
    /\ error' = MermaidRender(r.code, r.theme).message
    /\ isRendering' = FALSE
    /\ UNCHANGED <<codeHistory, sinceSet, settings, svgOutput, debounce, renderCalls,
                   exportedSvg, opCount, lastOp, lastFire, burst, sinceCall, burstRenders>>
    /\ UNCHANGED <<historyVars, sanVars, sessionVars, fileVars, previewVars>>
    /\ SaveEffect

Next ==
    \/ \E code \in CodeInputs : SetCode(code)
    \/ Undo
    \/ Redo
    \/ \E theme \in ThemeInputs : SetTheme(theme)
    \/ ExportSvg
    \/ Tick
    \/ RenderBlank
    \/ RenderInvoke
    \/ \E r \in inflight : RenderResolve(r)
    \/ \E r \in inflight : RenderReject(r)

Spec == Init /\ [][Next]_vars

\* A timer that is due fires, time passes while a timer is pending, and a
\* call in flight settles; no user operation is ever required to happen.
Settling ==
    /\ WF_vars(Tick)
    /\ WF_vars(RenderBlank)
    /\ WF_vars(RenderInvoke)
    /\ WF_vars(\E r \in inflight : RenderResolve(r))
    /\ WF_vars(\E r \in inflight : RenderReject(r))

SpecSettle == Init /\ [][Next]_vars /\ Settling

\* The hook driven by edits of the text and undo only.
NextEdit ==
    \/ \E code \in CodeInputs : SetCodeWithin(code, MaxEdits)
    \/ UndoWithin(MaxEdits)
    \/ Tick
    \/ RenderBlank
    \/ RenderInvoke
    \/ \E r \in inflight : RenderResolve(r)
    \/ \E r \in inflight : RenderReject(r)

SpecEdit == Init /\ [][NextEdit]_vars

\* The hook mounts with a stored sequence diagram or flowchart.
InitRename ==
    \E code \in RenameSources :
        LET saved == SavedState([codeHistory |-> NewHistory(code),
                                 settings |-> initialSettings], TRUE, Null)
            loaded == [codeHistory |-> NewHistory(getInitialCodeFrom(saved)),
                       settings |-> initialSettingsFrom(saved)]
        IN  /\ codeHistory = loaded.codeHistory
            /\ settings = loaded.settings
            /\ sinceSet = BATCH_THRESHOLD
            /\ isValid = TRUE
            /\ error = Null
            /\ svgOutput = EmptyMarkup
            /\ isRendering = FALSE
            /\ debounce = [left |-> DEBOUNCE_MS, code |-> loaded.codeHistory.present,
                           theme |-> loaded.settings.theme]
            /\ inflight = {}
            /\ renderCalls = <<>>
            /\ exportedSvg = EmptyMarkup
            /\ opCount = 0
            /\ lastOp = NoOp
            /\ lastFire = "none"
            /\ burst = <<>>
            /\ sinceCall = DEBOUNCE_MS
            /\ burstRenders = <<>>
            /\ InitHistoryVars
            /\ InitSanVars
            /\ InitFileVars
            /\ InitPreviewVars
            /\ toast = NoToast
            /\ before = loaded
            \* the save effect runs once on mount
            /\ stored = SavedState(loaded, TRUE, Null)

\* The hook driven by edits of the text and renames.
NextRename ==
    \/ \E code \in RenameEdits : SetCodeWithin(code, MaxRenameOps)
    \/ \E request \in RenameRequests : Rename(request[1], request[2], MaxRenameOps)
    \/ Tick
    \/ RenderBlank
    \/ RenderInvoke
    \/ \E r \in inflight : RenderResolve(r)
    \/ \E r \in inflight : RenderReject(r)

SpecRename == InitRename /\ [][NextRename]_vars

-----------------------------------------------------------------------------
(* SpecZoom: the zoom and pan controls of DiagramPreview. *)

Max(a, b) == IF a > b THEN a ELSE b

\* Mutant: zooming in has no upper limit.
handleZoomIn_NoLimit(prev) == prev + ZOOM_STEP

\* setScale(prev => Math.min(prev + 0.25, 5))
handleZoomIn(prev) == Min(prev + ZOOM_STEP, MAX_SCALE)

\* setScale(prev => Math.max(prev - 0.25, 0.25))
handleZoomOut(prev) == Max(prev - ZOOM_STEP, MIN_SCALE)

\* handleWheel with ctrlKey or metaKey: deltaY > 0 zooms out
handleWheel(prev, deltaY) ==
    LET delta == IF deltaY > 0 THEN -WHEEL_STEP ELSE WHEEL_STEP
    IN  Min(Max(prev + delta, MIN_SCALE), MAX_SCALE)

\* Inputs of SpecZoom: the wheel turned either way, the diagram dragged right
\* or up.
WheelDeltas == {-100, 100}
DragDeltas == {<<MaxPan, 0>>, <<0, -MaxPan>>}

\* What every operation on the preview records and leaves alone.
ZoomFrame(op) ==
    /\ opCount < MaxZoomOps
    /\ opCount' = opCount + 1
    /\ lastOp' = [op |-> op, val |-> "", prev |-> codeHistory.present,
                  futLen |-> Len(codeHistory.future), scale |-> scale]
    /\ UNCHANGED <<codeHistory, sinceSet, settings, isValid, error, svgOutput,
                   isRendering, debounce, inflight, renderCalls, exportedSvg, lastFire,
                   burst, sinceCall, burstRenders, stored>>
    /\ UNCHANGED <<historyVars, sanVars, sessionVars, fileVars>>

ZoomIn ==
    /\ scale' = handleZoomIn(scale)
    /\ UNCHANGED pan
    /\ ZoomFrame("zoomIn")

ZoomOut ==
    /\ scale' = handleZoomOut(scale)
    /\ UNCHANGED pan
    /\ ZoomFrame("zoomOut")

\* handleReset
ResetView ==
    /\ scale' = 100
    /\ pan' = <<0, 0>>
    /\ ZoomFrame("reset")

Wheel(deltaY) ==
    /\ scale' = handleWheel(scale, deltaY)
    /\ UNCHANGED pan
    /\ ZoomFrame("wheel")

\* handleMouseDown, handleMouseMove, handleMouseUp: a drag by delta
Drag(delta) ==
    /\ pan[1] + delta[1] \in -MaxPan..MaxPan
    /\ pan[2] + delta[2] \in -MaxPan..MaxPan
    /\ pan' = <<pan[1] + delta[1], pan[2] + delta[2]>>
    /\ UNCHANGED scale
    /\ ZoomFrame("drag")

NextZoom ==
    \/ ZoomIn
    \/ ZoomOut
    \/ ResetView
    \/ \E deltaY \in WheelDeltas : Wheel(deltaY)
    \/ \E delta \in DragDeltas : Drag(delta)

SpecZoom == Init /\ [][NextZoom]_vars

-----------------------------------------------------------------------------
(* Keyboard shortcuts (useKeyboardShortcuts.ts).  An event is [key, ctrlKey, *)
(* metaKey, shiftKey, inInput]; inInput says that its target is an input or *)
(* a textarea outside the code editor.                                      *)

KeyEvent(key, ctrlKey, metaKey, shiftKey, inInput) ==
    [key |-> key, ctrlKey |-> ctrlKey, metaKey |-> metaKey, shiftKey |-> shiftKey,
     inInput |-> inInput]

NoKey == KeyEvent("", FALSE, FALSE, FALSE, FALSE)

\* Mutant: Ctrl+Shift+Z is taken for Ctrl+Z.
handleKeyDown_IgnoresShift(event) ==
    IF event.inInput THEN "none"
    ELSE IF ~(event.ctrlKey \/ event.metaKey) THEN "none"
    ELSE CASE ToLowerCase(event.key) = "z" -> "undo"
           [] ToLowerCase(event.key) = "y" -> "redo"
           [] OTHER -> "none"

\* handleKeyDown with the options of FlowEditor (undo, redo given, enabled):
\* which of the two it calls, "none" if neither.
handleKeyDown(event) ==
    IF event.inInput THEN "none"
    ELSE IF ~(event.ctrlKey \/ event.metaKey) THEN "none"
    ELSE CASE ToLowerCase(event.key) = "z" -> IF event.shiftKey THEN "redo" ELSE "undo"
           [] ToLowerCase(event.key) = "y" -> "redo"
           [] OTHER -> "none"

\* The keyboard events of SpecHistory
CtrlZ == KeyEvent("z", TRUE, FALSE, FALSE, FALSE)
CtrlShiftZ == KeyEvent("Z", TRUE, FALSE, TRUE, FALSE)
CtrlY == KeyEvent("y", TRUE, FALSE, FALSE, FALSE)
KeyEvents == {CtrlZ, CtrlShiftZ, CtrlY, KeyEvent("z", TRUE, FALSE, FALSE, TRUE)}

-----------------------------------------------------------------------------
(* SpecHistory: the history container alone.  Values are numbers, each set *)
(* value fresh, so that every entry of past can be told from every other.  *)

\* Elapsed times tried for a set call, around BATCH_THRESHOLD.
SpacedDts == {BATCH_THRESHOLD, BATCH_THRESHOLD + 1}
RapidDts == {BATCH_THRESHOLD - 1}

DetourAllowed ==
    /\ hDetours < MaxDetours
    /\ hNext <= DetourWindow \/ hNext >= MAX_HISTORY_LENGTH

\* key is the keyboard event behind the call, NoKey for a direct call.
LogEntry(o, v, dt, h, key) ==
    [op |-> o, val |-> v, prev |-> codeHistory.present, dt |-> dt,
     pastLen |-> Len(codeHistory.past), futLen |-> Len(codeHistory.future),
     pushed |-> h.past # codeHistory.past, key |-> key]

HistoryStepBy(o, v, dt, h, detour, key) ==
    /\ codeHistory' = h
    /\ hLog' = LastN(Append(hLog, LogEntry(o, v, dt, h, key)), LogLen)
    /\ hDetours' = IF detour THEN hDetours + 1 ELSE hDetours
    /\ UNCHANGED <<sinceSet, settings, isValid, error, svgOutput, isRendering, debounce,
                   inflight, renderCalls, exportedSvg, opCount, lastOp, lastFire,
                   burst, sinceCall, burstRenders>>
    /\ UNCHANGED <<sanVars, sessionVars, stored, fileVars, previewVars>>

HistoryStep(o, v, dt, h, detour) == HistoryStepBy(o, v, dt, h, detour, NoKey)

\* set(fresh value), at least BATCH_THRESHOLD ms after the previous accepted set
HSetSpaced(dt) ==
    /\ hNext <= MaxSets
    /\ HistoryStep("set", hNext, dt, setCode(codeHistory, hNext, dt), FALSE)
    /\ hNext' = hNext + 1

\* set(fresh value), less than BATCH_THRESHOLD ms after the previous accepted set
HSetRapid(dt) ==
    /\ hNext <= MaxSets
    /\ DetourAllowed
    /\ HistoryStep("set", hNext, dt, setCode(codeHistory, hNext, dt), TRUE)
    /\ hNext' = hNext + 1

\* set(present)
HSetSame(dt) ==
    /\ DetourAllowed
    /\ HistoryStep("set", codeHistory.present, dt,
                   setCode(codeHistory, codeHistory.present, dt), TRUE)
    /\ UNCHANGED hNext

HUndo ==
    /\ DetourAllowed
    /\ HistoryStep("undo", 0, 0, HistUndo(codeHistory), TRUE)
    /\ UNCHANGED hNext

HRedo ==
    /\ DetourAllowed
    /\ HistoryStep("redo", 0, 0, HistRedo(codeHistory), TRUE)
    /\ UNCHANGED hNext

HClear ==
    /\ DetourAllowed
    /\ HistoryStep("clear", 0, 0, HistClear(codeHistory), TRUE)
    /\ UNCHANGED hNext

\* A keydown event reaches the window listener of useKeyboardShortcuts, whose
\* undo and redo are those of the history container.
HKeyDown(event) ==
    /\ DetourAllowed
    /\ LET call == handleKeyDown(event)
       IN  HistoryStepBy(call, 0, 0,
                         CASE call = "undo" -> HistUndo(codeHistory)
                           [] call = "redo" -> HistRedo(codeHistory)
                           [] OTHER -> codeHistory,
                         TRUE, event)
    /\ UNCHANGED hNext

InitHistory ==
    /\ codeHistory = NewHistory(0)
    /\ InitEditor
    /\ InitHistoryVars
    /\ InitSanVars
    /\ InitSessionVars
    /\ InitFileVars
    /\ InitPreviewVars

NextHistory ==
    \/ \E dt \in SpacedDts : HSetSpaced(dt)
    \/ \E dt \in RapidDts : HSetRapid(dt)
    \/ \E dt \in SpacedDts \cup RapidDts : HSetSame(dt)
    \/ HUndo
    \/ HRedo
    \/ HClear
    \/ \E event \in KeyEvents : HKeyDown(event)

SpecHistory == InitHistory /\ [][NextHistory]_vars

-----------------------------------------------------------------------------
(* SpecSanitize: sanitizeSvg on a bounded family of documents *)

SanLeaves ==
    {Elem("script", <<>>, <<>>),
     Elem("Iframe", <<Attr("src", "x.html")>>, <<>>),
     Elem("a", <<Attr("onClick", "go()"), Attr("xlink:href", "#n"),
                 Attr("fill", "JavaScript:go()"), Attr("id", "n1")>>, <<>>),
     Elem("text", <<Attr("class", "label"), Attr("data-id", "n1")>>, <<>>)}

SanInner ==
    {Elem("g", <<Attr("id", "grp"), Attr("onmouseover", "go()")>>, c) :
        c \in SeqUpTo(SanLeaves, MaxNested)}

SanInputs ==
    {<<Elem("svg", <<Attr("viewBox", "0 0 10 10"), Attr("onload", "go()")>>, c)>> :
        c \in SeqUpTo(SanLeaves \cup SanInner, MaxSiblings)}
    \cup {EmptyMarkup, <<Elem("parsererror", <<>>, <<>>)>>}

Sanitize ==
    /\ sanPhase = "input"
    /\ sanOutput' = sanitizeSvg(sanInput)
    /\ sanPhase' = "done"
    /\ UNCHANGED sanInput
    /\ UNCHANGED <<editorVars, historyVars, sessionVars, stored, fileVars, previewVars>>

InitSanitize ==
    /\ codeHistory = NewHistory(getInitialCode)
    /\ InitEditor
    /\ InitHistoryVars
    /\ InitSessionVars
    /\ InitFileVars
    /\ InitPreviewVars
    /\ sanInput \in SanInputs
    /\ sanOutput = EmptyMarkup
    /\ sanPhase = "input"

\* sanitizeSvg is given what it returned.
SanitizeAgain ==
    /\ sanPhase = "done"
    /\ sanInput' = sanOutput
    /\ sanOutput' = sanitizeSvg(sanOutput)
    /\ sanPhase' = "again"
    /\ UNCHANGED <<editorVars, historyVars, sessionVars, stored, fileVars, previewVars>>

NextSanitize == Sanitize \/ SanitizeAgain

SpecSanitize == InitSanitize /\ [][NextSanitize]_vars

-----------------------------------------------------------------------------
(* SpecSession, SpecImport: the session operations of useDiagramEditor.     *)
(* The render scheduler is left aside: its variables keep their initial     *)
(* values.  Each operation is one of at most n in a run.                    *)

SessionCodes == {"", "x"}
SessionThemes == {"forest"}
SessionTitles == {"Mine"}
SessionKinds == {"flowchart", "sequence", "pie"}

Session == [codeHistory |-> codeHistory, settings |-> settings]

\* What every session operation records and leaves alone.
SessionFrame(op, val, n) ==
    /\ opCount < n
    /\ opCount' = opCount + 1
    /\ lastOp' = [op |-> op, val |-> val, prev |-> codeHistory.present,
                  futLen |-> Len(codeHistory.future)]
    /\ before' = Session
    /\ UNCHANGED <<isValid, error, svgOutput, isRendering, debounce, inflight,
                   renderCalls, exportedSvg, lastFire, burst, sinceCall, burstRenders>>
    /\ UNCHANGED <<historyVars, sanVars, fileVars, previewVars>>

\* setCode(code)
SessionSetCode(code, n) ==
    /\ codeHistory' = setCode(codeHistory, code, sinceSet)
    /\ sinceSet' = IF HistAccepts(codeHistory, code) THEN 0 ELSE sinceSet
    /\ toast' = NoToast
    /\ SessionFrame("setCode", code, n)
    /\ UNCHANGED settings
    /\ SaveEffect

\* undo()
SessionUndo(n) ==
    /\ codeHistory' = HistUndo(codeHistory)
    /\ toast' = NoToast
    /\ SessionFrame("undo", "", n)
    /\ UNCHANGED <<sinceSet, settings>>
    /\ SaveEffect

\* redo()
SessionRedo(n) ==
    /\ codeHistory' = HistRedo(codeHistory)
    /\ toast' = NoToast
    /\ SessionFrame("redo", "", n)
    /\ UNCHANGED <<sinceSet, settings>>
    /\ SaveEffect

\* Mutant: setTheme also drops the undo/redo history.
SessionSetTheme_ClearsHistory(theme, n) ==
    /\ settings' = [settings EXCEPT !.theme = theme]
    /\ codeHistory' = HistClear(codeHistory)
    /\ toast' = NoToast
    /\ SessionFrame("setTheme", theme, n)
    /\ UNCHANGED sinceSet
    /\ SaveEffect

\* setTheme(theme)
SessionSetTheme(theme, n) ==
    /\ settings' = [settings EXCEPT !.theme = theme]
    /\ toast' = NoToast
    /\ SessionFrame("setTheme", theme, n)
    /\ UNCHANGED <<codeHistory, sinceSet>>
    /\ SaveEffect

\* Mutant: the title is set and the stored document is left as it was.
SetProjectTitle_NoSave(title, n) ==
    /\ settings' = [settings EXCEPT !.projectTitle = title]
    /\ toast' = NoToast
    /\ SessionFrame("setProjectTitle", title, n)
    /\ UNCHANGED <<codeHistory, sinceSet, stored>>

\* setProjectTitle(title)
SetProjectTitle(title, n) ==
    /\ settings' = [settings EXCEPT !.projectTitle = title]
    /\ toast' = NoToast
    /\ SessionFrame("setProjectTitle", title, n)
    /\ UNCHANGED <<codeHistory, sinceSet>>
    /\ SaveEffect

\* setDiagramType(diagramType)
SetDiagramType(diagramType, n) ==
    /\ LET sess == setDiagramType(Session, diagramType, sinceSet)
       IN  /\ codeHistory' = sess.codeHistory
           /\ settings' = sess.settings
    /\ sinceSet' = IF HistAccepts(codeHistory, getDefaultCode(diagramType)) THEN 0
                   ELSE sinceSet
    /\ toast' = NoToast
    /\ SessionFrame("setDiagramType", diagramType, n)
    /\ SaveEffect

\* handleFileChange with the chosen file, onImport being importProject
HandleFileChange(file, n) ==
    /\ LET read == ReadOutcome[file.name]
       IN  IF read.ok
           THEN LET sess == importProject(Session, read.data, sinceSet)
                IN  /\ codeHistory' = sess.codeHistory
                    /\ settings' = sess.settings
                    /\ sinceSet' = IF Truthy(read.data.code)
                                      /\ HistAccepts(codeHistory, Shown(read.data.code))
                                   THEN 0 ELSE sinceSet
                    /\ toast' = [title |-> "Import successful",
                                 description |-> "Loaded \"" \o file.name \o "\" successfully."]
           ELSE /\ toast' = [title |-> "Import failed", description |-> read.message]
                /\ UNCHANGED <<codeHistory, settings, sinceSet>>
    /\ SessionFrame("import", file.name, n)
    /\ SaveEffect

\* BATCH_THRESHOLD passes without a set.
SessionWait ==
    /\ sinceSet < BATCH_THRESHOLD
    /\ sinceSet' = BATCH_THRESHOLD
    /\ UNCHANGED <<codeHistory, settings, isValid, error, svgOutput, isRendering,
                   debounce, inflight, renderCalls, exportedSvg, opCount, lastOp,
                   lastFire, burst, sinceCall, burstRenders>>
    /\ UNCHANGED <<historyVars, sanVars, sessionVars, fileVars, previewVars>>
    /\ SaveEffect

\* resetToTemplate()
ResetToTemplate(n) ==
    /\ LET sess == resetToTemplate(Session, sinceSet)
       IN  /\ codeHistory' = sess.codeHistory
           /\ settings' = sess.settings
    /\ sinceSet' = IF HistAccepts(codeHistory, getDefaultCode(settings.diagramType)) THEN 0
                   ELSE sinceSet
    /\ toast' = NoToast
    /\ SessionFrame("resetToTemplate", "", n)
    /\ SaveEffect

\* The page is loaded anew: the hook mounts with the stored document, and the
\* save effect runs once on mount.
Reload(n) ==
    /\ codeHistory' = NewHistory(getInitialCodeFrom(stored))
    /\ settings' = initialSettingsFrom(stored)
    /\ sinceSet' = BATCH_THRESHOLD
    /\ toast' = NoToast
    /\ SessionFrame("reload", "", n)
    /\ stored' = SavedState([codeHistory |-> codeHistory', settings |-> settings'],
                            isValid', error')

\* The operations other than the import, each one of at most n.
SessionOps(n) ==
    \/ \E code \in SessionCodes : SessionSetCode(code, n)
    \/ SessionUndo(n)
    \/ SessionRedo(n)
    \/ \E theme \in SessionThemes : SessionSetTheme(theme, n)
    \/ \E title \in SessionTitles : SetProjectTitle(title, n)
    \/ \E diagramType \in SessionKinds : SetDiagramType(diagramType, n)
    \/ ResetToTemplate(n)
    \/ SessionWait
    \/ Reload(n)

InitSession == Init

NextSession == SessionOps(MaxSessionOps)

SpecSession == InitSession /\ [][NextSession]_vars

NextImport ==
    \/ SessionOps(MaxImportOps)
    \/ \E file \in ImportFiles : HandleFileChange(file, MaxImportOps)

SpecImport == InitSession /\ [][NextImport]_vars

-----------------------------------------------------------------------------
(* SpecTemplates: the kind is switched to any of the declared kinds and the *)
(* template of any kind is imported as a file of raw source.                *)

\* The template of a kind saved as a source file.
TemplateFile(type) == RawFile(type \o ".mmd", templateSource[type], 0, 0)

\* What reading each of the template files comes to.
TemplateOutcome == [type \in DiagramTypes |-> ReadFile(TemplateFile(type))]

\* handleFileChange with the template file of a kind, onImport being importProject
ImportTemplate(type, n) ==
    /\ LET read == TemplateOutcome[type]
       IN  IF read.ok
           THEN LET sess == importProject(Session, read.data, sinceSet)
                IN  /\ codeHistory' = sess.codeHistory
                    /\ settings' = sess.settings
                    /\ sinceSet' = IF Truthy(read.data.code)
                                      /\ HistAccepts(codeHistory, Shown(read.data.code))
                                   THEN 0 ELSE sinceSet
                    /\ toast' = [title |-> "Import successful",
                                 description |-> "Loaded \"" \o TemplateFile(type).name
                                                 \o "\" successfully."]
           ELSE /\ toast' = [title |-> "Import failed", description |-> read.message]
                /\ UNCHANGED <<codeHistory, settings, sinceSet>>
    /\ SessionFrame("import", TemplateFile(type).name, n)
    /\ SaveEffect

NextTemplates ==
    \/ \E diagramType \in DiagramTypes : SetDiagramType(diagramType, MaxTemplateOps)
    \/ \E type \in DiagramTypes : ImportTemplate(type, MaxTemplateOps)

SpecTemplates == InitSession /\ [][NextTemplates]_vars

-----------------------------------------------------------------------------
(* SpecLoad: the hook mounts with a document found under STORAGE_KEY, then  *)
(* the session operations follow.                                           *)

\* A document of the four fields, isValid and error.
StateDoc(code, diagramType, theme, projectTitle) ==
    JObj([code |-> code, diagramType |-> diagramType, theme |-> theme,
          projectTitle |-> projectTitle, isValid |-> JBool(TRUE), error |-> JNull])

\* Documents found in storage, by a name for each.
StoredDocs ==
    [absent |-> NoItem,
     unparsable |-> JSyntaxError,
     jsonNull |-> JNull,
     jsonString |-> JStr("graph LR"),
     jsonNumber |-> JNum("5"),
     emptyObject |-> JObj([isValid |-> JBool(TRUE)]),
     wellFormed |-> StateDoc(JStr("graph LR"), JStr("sequence"), JStr("dark"), JStr("Mine")),
     emptyTitle |-> StateDoc(JStr("graph LR"), JStr("sequence"), JStr("dark"), JStr("")),
     \* as written by the hook before it had a projectTitle
     noTitle |-> JObj([code |-> JStr("graph LR"), diagramType |-> JStr("sequence"),
                       theme |-> JStr("dark"), isValid |-> JBool(TRUE), error |-> JNull]),
     noCode |-> JObj([diagramType |-> JStr("sequence"), theme |-> JStr("dark"),
                      projectTitle |-> JStr("Mine")]),
     emptyCode |-> StateDoc(JStr(""), JStr("sequence"), JStr("dark"), JStr("Mine")),
     numberCode |-> StateDoc(JNum("5"), JStr("sequence"), JStr("dark"), JStr("Mine")),
     numberTheme |-> StateDoc(JStr("graph LR"), JStr("sequence"), JNum("7"), JStr("Mine")),
     nullKind |-> StateDoc(JStr("graph LR"), JNull, JStr("dark"), JStr("Mine"))]

InitLoad ==
    \E name \in DOMAIN StoredDocs :
        LET saved == StoredDocs[name]
            loaded == [codeHistory |-> NewHistory(getInitialCodeFrom(saved)),
                       settings |-> initialSettingsFrom(saved)]
        IN  /\ codeHistory = loaded.codeHistory
            /\ settings = loaded.settings
            /\ sinceSet = BATCH_THRESHOLD
            /\ isValid = TRUE
            /\ error = Null
            /\ svgOutput = EmptyMarkup
            /\ isRendering = FALSE
            /\ debounce = [left |-> DEBOUNCE_MS, code |-> loaded.codeHistory.present,
                           theme |-> loaded.settings.theme]
            /\ inflight = {}
            /\ renderCalls = <<>>
            /\ exportedSvg = EmptyMarkup
            /\ opCount = 0
            /\ lastOp = [op |-> "load", val |-> name, prev |-> "", futLen |-> 0]
            /\ lastFire = "none"
            /\ burst = <<>>
            /\ sinceCall = DEBOUNCE_MS
            /\ burstRenders = <<>>
            /\ InitHistoryVars
            /\ InitSanVars
            /\ InitFileVars
            /\ InitPreviewVars
            /\ toast = NoToast
            /\ before = loaded
            \* the save effect runs once on mount
            /\ stored = SavedState(loaded, TRUE, Null)

NextLoad == SessionOps(MaxLoadOps)

SpecLoad == InitLoad /\ [][NextLoad]_vars

-----------------------------------------------------------------------------
(* SpecFiles: the export menu of ExportButton and the import of            *)
(* ImportButton on top of the hook.  A raster export waits for its image,  *)
(* an import for the text of its file: each is a start and a completion.   *)
(* While the export menu is open it takes every click and key.             *)

\* Inputs of SpecFiles.  Of the two raster formats, which take the same path
\* through handleExport, one is asked for; of the files, one that is read and
\* one that is turned away before it is read.
FileCodes == {"gra", ""}
ExportFormats == {"svg", "png"}
CodeFormats == {"mmd", "flowilham"}
FileImports == {"a.mmd", "d.svg"}

\* disabled={!isValid || !svgOutput || isExporting}
ExportEnabled == isValid /\ svgOutput # EmptyMarkup /\ ~isExporting

\* What every user operation of SpecFiles records and leaves alone.
FileFrame(op, val) ==
    /\ opCount < MaxFileOps
    /\ opCount' = opCount + 1
    /\ lastOp' = [op |-> op, val |-> val, prev |-> codeHistory.present,
                  futLen |-> Len(codeHistory.future)]
    /\ before' = Session
    /\ EndBurst
    /\ UNCHANGED <<codeHistory, sinceSet, settings, isValid, error, svgOutput,
                   isRendering, debounce, inflight, renderCalls, lastFire, stored>>
    /\ UNCHANGED <<historyVars, sanVars, previewVars>>

\* A click on the export trigger opens the menu.
OpenExportMenu ==
    /\ ~menuOpen
    /\ ExportEnabled
    /\ menuOpen' = TRUE
    /\ toast' = NoToast
    /\ UNCHANGED <<isExporting, exporting, reading, exportedSvg, exportedCode>>
    /\ FileFrame("openMenu", "")

\* Mutant: handleExport without its check of svgOutput and isValid.
HandleExport_NoCheck(format) ==
    /\ menuOpen
    /\ menuOpen' = FALSE
    /\ IF format = "svg"
       THEN /\ exportedSvg' = prepareSvgForExport(svgOutput, themeBackgrounds(settings.theme))
            /\ toast' = [title |-> "Export successful",
                         description |-> "Your diagram has been exported as SVG."]
            /\ UNCHANGED <<isExporting, exporting>>
       ELSE /\ isExporting' = TRUE
            /\ exporting' = Append(exporting, [format |-> format, svg |-> svgOutput])
            /\ toast' = NoToast
            /\ UNCHANGED exportedSvg
    /\ UNCHANGED <<reading, exportedCode>>
    /\ FileFrame("export", format)

\* handleExport(format), from an item of the open menu, up to its first
\* await or its end
HandleExport(format) ==
    /\ menuOpen
    /\ menuOpen' = FALSE
    /\ IF svgOutput = EmptyMarkup \/ ~isValid
       THEN /\ toast' = [title |-> "Cannot export",
                         description |-> "Please fix any errors before exporting."]
            /\ UNCHANGED <<isExporting, exporting, exportedSvg>>
       ELSE IF format = "svg"
       THEN /\ exportedSvg' = prepareSvgForExport(svgOutput, themeBackgrounds(settings.theme))
            /\ toast' = [title |-> "Export successful",
                         description |-> "Your diagram has been exported as SVG."]
            /\ UNCHANGED <<isExporting, exporting>>
       ELSE /\ isExporting' = TRUE
            /\ exporting' = Append(exporting, [format |-> format, svg |-> svgOutput])
            /\ toast' = NoToast
            /\ UNCHANGED exportedSvg
    /\ UNCHANGED <<reading, exportedCode>>
    /\ FileFrame("export", format)

\* handleCodeExport(format), from an item of the open menu
HandleCodeExport(format) ==
    /\ menuOpen
    /\ menuOpen' = FALSE
    /\ IF codeHistory.present = ""
       THEN /\ toast' = [title |-> "Cannot export",
                         description |-> "No diagram code to export."]
            /\ UNCHANGED exportedCode
       ELSE /\ exportedCode' = Append(exportedCode, [format |-> format,
                                                     code |-> codeHistory.present])
            /\ toast' = [title |-> "Export successful",
                         description |-> "Your diagram has been exported as ."
                                         \o format \o " file."]
    /\ UNCHANGED <<isExporting, exporting, reading, exportedSvg>>
    /\ FileFrame("exportCode", format)

\* The sequence without its i-th element
Without(seq, i) == SubSeq(seq, 1, i - 1) \o SubSeq(seq, i + 1, Len(seq))

\* The image of a raster export loads (the file is downloaded) or fails to:
\* the rest of handleExport.
ExportSettles(i, loaded) ==
    /\ i \in 1..Len(exporting)
    /\ exporting' = Without(exporting, i)
    /\ isExporting' = FALSE
    /\ toast' = IF loaded
                THEN [title |-> "Export successful",
                      description |-> "Your diagram has been exported as "
                                      \o (IF exporting[i].format = "png" THEN "PNG" ELSE "JPG")
                                      \o "."]
                ELSE [title |-> "Export failed",
                      description |-> "There was an error exporting your diagram."]
    /\ UNCHANGED <<codeHistory, sinceSet, settings, isValid, error, svgOutput,
                   isRendering, debounce, inflight, renderCalls, exportedSvg, opCount,
                   lastOp, lastFire, burst, sinceCall, burstRenders, before, stored,
                   reading, menuOpen, exportedCode>>
    /\ UNCHANGED <<historyVars, sanVars, previewVars>>

\* handleFileChange up to the await of the file's text: the checks of size
\* and extension.  The input is emptied only at the end of the handler, so
\* choosing a file that is still being read is no change of the input.
ImportStart(file) ==
    /\ ~menuOpen
    /\ \A i \in 1..Len(reading) : reading[i] # file.name
    /\ IF file.size > maxFileSize \/ Extension(file) = ""
          \/ Extension(file) \notin allowedExtensions
       THEN /\ toast' = [title |-> "Import failed",
                         description |-> ReadOutcome[file.name].message]
            /\ UNCHANGED reading
       ELSE /\ reading' = Append(reading, file.name)
            /\ toast' = NoToast
    /\ UNCHANGED <<isExporting, exporting, menuOpen, exportedSvg, exportedCode>>
    /\ FileFrame("import", file.name)

\* The text of a file has been read: the rest of parseImportedFile and of
\* handleFileChange.
ImportSettles(i) ==
    /\ i \in 1..Len(reading)
    /\ reading' = Without(reading, i)
    /\ LET read == ReadOutcome[reading[i]]
       IN  IF read.ok
           THEN LET sess == importProject(Session, read.data, sinceSet)
                IN  /\ codeHistory' = sess.codeHistory
                    /\ settings' = sess.settings
                    /\ sinceSet' = IF Truthy(read.data.code)
                                      /\ HistAccepts(codeHistory, Shown(read.data.code))
                                   THEN 0 ELSE sinceSet
                    /\ debounce' = DebounceEffect(codeHistory.present, settings.theme,
                                                  sess.codeHistory.present,
                                                  sess.settings.theme, debounce)
                    /\ toast' = [title |-> "Import successful",
                                 description |-> "Loaded \"" \o reading[i]
                                                 \o "\" successfully."]
           ELSE /\ toast' = [title |-> "Import failed", description |-> read.message]
                /\ UNCHANGED <<codeHistory, settings, sinceSet, debounce>>
    /\ UNCHANGED <<isValid, error, svgOutput, isRendering, inflight, renderCalls,
                   exportedSvg, opCount, lastOp, lastFire, burst, sinceCall,
                   burstRenders, before, isExporting, exporting, menuOpen,
                   exportedCode>>
    /\ UNCHANGED <<historyVars, sanVars, previewVars>>
    /\ SaveEffect

NextFiles ==
    \/ \E code \in FileCodes : ~menuOpen /\ SetCodeWithin(code, MaxFileOps)
    \/ OpenExportMenu
    \/ \E format \in ExportFormats : HandleExport(format)
    \/ \E format \in CodeFormats : HandleCodeExport(format)
    \/ \E i \in 1..Len(exporting), loaded \in BOOLEAN : ExportSettles(i, loaded)
    \/ \E name \in FileImports : ImportStart(FileNamed(name))
    \/ \E i \in 1..Len(reading) : ImportSettles(i)
    \/ Tick
    \/ RenderBlank
    \/ RenderInvoke
    \/ \E r \in inflight : RenderResolve(r)
    \/ \E r \in inflight : RenderReject(r)

SpecFiles == Init /\ [][NextFiles]_vars

-----------------------------------------------------------------------------
(* SpecCycle: every operation of the hook that writes the session, and the  *)
(* rename of the preview, with the render scheduler running.  An import is  *)
(* taken at its completion.  None of the texts has a syntax error, so every *)
(* render call resolves.                                                    *)

CycleCodes == {" "}
CycleThemes == {"dark"}
CycleTitles == {"Mine"}
CycleKinds == {"sequence"}
CycleImports == {"a.mmd"}
CycleRenames == {<<"TD", "LR">>}

\* The texts the session can hold in SpecCycle: those typed, the templates,
\* those imported, and what a rename makes of them.
CycleTyped ==
    {getInitialCode} \cup CycleCodes
    \cup {getDefaultCode(diagramType) : diagramType \in CycleKinds \cup {"flowchart"}}
    \cup {Shown(ReadOutcome[name].data.code) :
             name \in {n \in CycleImports : ReadOutcome[n].ok}}
CycleTexts ==
    CycleTyped \cup {handleRename(code, request[1], request[2]).newCode :
                        code \in CycleTyped, request \in CycleRenames}

\* handleRename, worked out once for each text and request
CycleRenameOutcome ==
    [code \in CycleTexts |->
        [request \in CycleRenames |-> handleRename(code, request[1], request[2])]]

\* One operation commits the session sess; sets says that it called
\* codeHistory.set.  The debounced-render effect and the save effect follow
\* the commit.
CycleStep(op, val, sess, sets) ==
    /\ opCount < MaxCycleOps
    /\ codeHistory' = sess.codeHistory
    /\ settings' = sess.settings
    /\ sinceSet' = IF sets /\ sess.codeHistory.present # codeHistory.present THEN 0
                   ELSE sinceSet
    /\ debounce' = DebounceEffect(codeHistory.present, settings.theme,
                                  sess.codeHistory.present, sess.settings.theme, debounce)
    /\ opCount' = opCount + 1
    /\ lastOp' = [op |-> op, val |-> val, prev |-> codeHistory.present,
                  futLen |-> Len(codeHistory.future), calls |-> Len(renderCalls)]
    /\ before' = Session
    /\ toast' = NoToast
    /\ UNCHANGED <<isValid, error, svgOutput, isRendering, inflight, renderCalls,
                   exportedSvg, lastFire, burst, sinceCall, burstRenders>>
    /\ UNCHANGED <<historyVars, sanVars, fileVars, previewVars>>
    /\ SaveEffect

CycleSetCode(code) ==
    CycleStep("setCode", code,
              [codeHistory |-> setCode(codeHistory, code, sinceSet), settings |-> settings],
              TRUE)

CycleUndo ==
    CycleStep("undo", "",
              [codeHistory |-> HistUndo(codeHistory), settings |-> settings], FALSE)

CycleRedo ==
    CycleStep("redo", "",
              [codeHistory |-> HistRedo(codeHistory), settings |-> settings], FALSE)

CycleResetToTemplate ==
    CycleStep("resetToTemplate", "", resetToTemplate(Session, sinceSet), TRUE)

CycleSetDiagramType(diagramType) ==
    CycleStep("setDiagramType", diagramType,
              setDiagramType(Session, diagramType, sinceSet), TRUE)

CycleImport(name) ==
    CycleStep("import", name,
              IF ReadOutcome[name].ok
              THEN importProject(Session, ReadOutcome[name].data, sinceSet)
              ELSE Session,
              TRUE)

\* The session after handleRename came to r.
SessionRenamed(r) ==
    [codeHistory |-> IF r.call THEN setCode(codeHistory, r.newCode, sinceSet)
                     ELSE codeHistory,
     settings |-> settings]

CycleRename(oldText, newText) ==
    CycleStep("rename", newText,
              SessionRenamed(CycleRenameOutcome[codeHistory.present][<<oldText, newText>>]), TRUE)

CycleSetTheme(theme) ==
    CycleStep("setTheme", theme,
              [codeHistory |-> codeHistory,
               settings |-> [settings EXCEPT !.theme = theme]], FALSE)

CycleSetProjectTitle(title) ==
    CycleStep("setProjectTitle", title,
              [codeHistory |-> codeHistory,
               settings |-> [settings EXCEPT !.projectTitle = title]], FALSE)

NextCycle ==
    \/ \E code \in CycleCodes : CycleSetCode(code)
    \/ CycleUndo
    \/ CycleRedo
    \/ CycleResetToTemplate
    \/ \E diagramType \in CycleKinds : CycleSetDiagramType(diagramType)
    \/ \E name \in CycleImports : CycleImport(name)
    \/ \E request \in CycleRenames : CycleRename(request[1], request[2])
    \/ \E theme \in CycleThemes : CycleSetTheme(theme)
    \/ \E title \in CycleTitles : CycleSetProjectTitle(title)
    \/ Tick
    \/ RenderBlank
    \/ RenderInvoke
    \/ \E r \in inflight : RenderResolve(r)

SpecCycle == Init /\ [][NextCycle]_vars

-----------------------------------------------------------------------------
(* Claims about the render scheduler (Spec, SpecEdit) *)

LastCall == renderCalls[Len(renderCalls)]

\* C1: when two external render calls overlap, the later-invoked call decides
\* the state: once every call has settled, validity and svgOutput are the ones
\* the most recently invoked call produced, in whatever order they completed.
C1_LatestCallDecides ==
    (inflight = {} /\ lastFire = "call" /\ Len(renderCalls) >= 2) =>
        LET out == MermaidRender(LastCall.code, LastCall.theme)
        IN  IF out.ok
            THEN isValid /\ error = Null /\ svgOutput = out.svg
            ELSE ~isValid /\ error = out.message

BurstCodes == [i \in 1..Len(burst) |-> burst[i].code]

\* Three setCode calls with distinct values, each less than DEBOUNCE_MS after
\* the one before, nothing after them, and the timer has fired.
BurstOfThreeSettled ==
    /\ Len(burst) = 3
    /\ Cardinality({burst[i].code : i \in 1..3}) = 3
    /\ debounce = NoTimer

\* C2 (as claimed): a settled burst of three distinct values made exactly one
\* external render call, with the last value.
C2_OneRenderWithLast ==
    BurstOfThreeSettled => burstRenders = <<burst[3].code>>

\* C2 (amended): when the first value differs from the text it replaces, a
\* settled burst of three distinct values made no call with the first two
\* values, exactly one call with the last value when that value is not blank,
\* and no call at all when it is blank.
C2_OneRenderWithLastNonBlank ==
    (BurstOfThreeSettled /\ burst[1].changed) =>
        burstRenders = IF Trim(burst[3].code) = "" THEN <<>> ELSE <<burst[3].code>>

C2_Witness ==
    /\ BurstOfThreeSettled
    /\ burst[1].changed
    /\ burstRenders = <<burst[3].code>>

SanitizedRenders ==
    {sanitizeSvg(MermaidRender(renderCalls[i].code, renderCalls[i].theme).svg) :
        i \in {j \in 1..Len(renderCalls) :
                  MermaidRender(renderCalls[j].code, renderCalls[j].theme).ok}}

\* C5: svgOutput only ever holds the sanitizer's output for markup the renderer
\* returned, and so do its consumers: the preview's inserted markup and the
\* markup handed to the SVG export.
C5_OnlySanitizedMarkup ==
    /\ svgOutput # EmptyMarkup => svgOutput \in SanitizedRenders
    /\ PreviewHtml # EmptyMarkup => PreviewHtml \in SanitizedRenders
    /\ exportedSvg # EmptyMarkup =>
          \E m \in SanitizedRenders, t \in MermaidThemes :
              exportedSvg = prepareSvgForExport(m, themeBackgrounds(t))

\* C9: a setCode whose value equals present changes neither past, present nor
\* future, does not restart the debounce timer and makes no render call.
C9_EqualSetChangesNothing ==
    [][(opCount' = opCount + 1 /\ lastOp'.op = "setCode"
          /\ lastOp'.val = codeHistory.present)
       => /\ codeHistory' = codeHistory
          /\ debounce' = debounce
          /\ renderCalls' = renderCalls
          /\ inflight' = inflight]_vars

C9_Witness ==
    /\ lastOp.op = "setCode"
    /\ lastOp.val = lastOp.prev
    /\ lastOp.futLen > 0
    /\ Len(codeHistory.future) = lastOp.futLen
    /\ debounce # NoTimer
    /\ debounce.left < DEBOUNCE_MS

\* The external calls that have completed with success.
CompletedOk ==
    {i \in 1..Len(renderCalls) :
        /\ \A r \in inflight : r.id # i
        /\ MermaidRender(renderCalls[i].code, renderCalls[i].theme).ok}

\* C13 (as claimed): a non-empty svgOutput implies isValid and a non-blank
\* source text, in every reachable state.
C13_OutputImpliesValidNonBlank ==
    svgOutput # EmptyMarkup => isValid /\ Trim(codeHistory.present) # ""

\* C13 (amended): a non-empty svgOutput is the markup of an external call that
\* completed with success, made for a non-blank source.
C13_OutputFromCompletedCall ==
    svgOutput # EmptyMarkup =>
        \E i \in CompletedOk :
            /\ Trim(renderCalls[i].code) # ""
            /\ svgOutput = MermaidRender(renderCalls[i].code, renderCalls[i].theme).svg

\* A failed render left the last good markup in place, and the text was then
\* emptied: the output is non-empty, validity is false, the text is blank.
C13_Witness ==
    /\ svgOutput # EmptyMarkup
    /\ ~isValid
    /\ inflight = {}
    /\ Trim(codeHistory.present) = ""
    /\ debounce # NoTimer

\* The calls that reject in this step.
Rejecting == {r \in inflight : r \notin inflight' /\ ~MermaidRender(r.code, r.theme).ok}

C15_BlankFireClears ==
    [][(debounce # NoTimer /\ debounce.left = 0 /\ debounce' = NoTimer
          /\ Trim(codeHistory.present) = "")
       => /\ renderCalls' = renderCalls
          /\ inflight' = inflight
          /\ isRendering' = isRendering
          /\ svgOutput' = EmptyMarkup
          /\ isValid' = TRUE
          /\ error' = Null]_vars

\* The only external call failed, then the timer fired with a blank text:
\* validity went from false to true.
C15_Witness ==
    /\ lastFire = "blank"
    /\ Len(renderCalls) = 1
    /\ ~MermaidRender(renderCalls[1].code, renderCalls[1].theme).ok
    /\ inflight = {}
    /\ isValid /\ error = Null /\ svgOutput = EmptyMarkup
    /\ Trim(codeHistory.present) = ""

-----------------------------------------------------------------------------
(* Claims about the history container (SpecHistory) *)

Present == codeHistory.present
Past == codeHistory.past
Future == codeHistory.future

\* The k-th newest entry of hLog (1 is the newest).
Recent(k) == hLog[Len(hLog) - k + 1]

\* C6: past never holds more than MAX_HISTORY_LENGTH entries; and after n
\* spaced sets of distinct values and nothing else, present is the last value
\* set and past holds the most recent earlier values, the oldest evicted.
C6_PastBounded ==
    /\ Len(Past) <= MAX_HISTORY_LENGTH
    /\ hDetours = 0 =>
          LET n == hNext - 1
              k == Min(n, MAX_HISTORY_LENGTH)
          IN  /\ Present = n
              /\ Past = [i \in 1..k |-> n - k + i - 1]

C6_Witness ==
    /\ hDetours = 0
    /\ hNext - 1 > MAX_HISTORY_LENGTH
    /\ Len(Past) = MAX_HISTORY_LENGTH
    /\ Past[1] = hNext - 1 - MAX_HISTORY_LENGTH
    /\ Present = hNext - 1

\* The last two operations are set calls less than BATCH_THRESHOLD apart, each
\* with a value distinct from the present it replaced.
TwoRapidSets ==
    /\ Len(hLog) >= 2
    /\ Recent(2).op = "set" /\ Recent(2).val # Recent(2).prev
    /\ Recent(1).op = "set" /\ Recent(1).val # Recent(1).prev
    /\ Recent(1).dt < BATCH_THRESHOLD

Added(e) == IF e.pushed THEN 1 ELSE 0

\* C7 (as claimed): two such sets add exactly one entry to past in total.
C7_ExactlyOneEntry ==
    TwoRapidSets => Added(Recent(2)) + Added(Recent(1)) = 1

\* C7 (amended): of two such sets the second never adds an entry, and the
\* first adds one exactly when it takes the push branch: it comes at least
\* BATCH_THRESHOLD after the previous accepted set, or past is empty.
C7_AtMostOneEntry ==
    TwoRapidSets =>
        /\ ~Recent(1).pushed
        /\ Recent(2).pushed <=>
              (Recent(2).dt >= BATCH_THRESHOLD \/ Recent(2).pastLen = 0)

C7_Witness ==
    /\ TwoRapidSets
    /\ Recent(2).pushed
    /\ Recent(2).pastLen = MAX_HISTORY_LENGTH
    /\ Len(Past) = MAX_HISTORY_LENGTH

\* The last operations are set(a); set(b); undo with a # b.
SetSetUndo ==
    /\ Len(hLog) >= 3
    /\ Recent(3).op = "set" /\ Recent(2).op = "set" /\ Recent(1).op = "undo"
    /\ Recent(3).val # Recent(2).val

\* The last operations are set(a); set(b); undo; redo with a # b.
SetSetUndoRedo ==
    /\ Len(hLog) >= 4
    /\ Recent(4).op = "set" /\ Recent(3).op = "set"
    /\ Recent(2).op = "undo" /\ Recent(1).op = "redo"
    /\ Recent(4).val # Recent(3).val

\* C8 (as claimed): after set(a); set(b), undo yields a, and a redo right
\* after yields b, whatever the timing.
C8_UndoRedoInverse ==
    /\ SetSetUndo => Present = Recent(3).val
    /\ SetSetUndoRedo => Present = Recent(3).val

\* C8 (amended): undo yields a when set(b) took the push branch (at least
\* BATCH_THRESHOLD after the previous accepted set, or past empty); a redo
\* right after the undo yields b in every case.
C8_UndoRedoInverseUnbatched ==
    /\ (SetSetUndo /\ (Recent(2).dt >= BATCH_THRESHOLD \/ Recent(2).pastLen = 0))
          => Present = Recent(3).val
    /\ SetSetUndoRedo => Present = Recent(3).val

C8_Witness ==
    /\ SetSetUndoRedo
    /\ Recent(3).dt >= BATCH_THRESHOLD
    /\ Recent(3).pastLen > 0
    /\ Present = Recent(3).val
    /\ Past[Len(Past)] = Recent(4).val

\* C10: right after a set whose value differs from present, future is empty
\* and canRedo is false, in the batching branch and in the push branch.
C10_SetClearsFuture ==
    (Len(hLog) >= 1 /\ Recent(1).op = "set" /\ Recent(1).val # Recent(1).prev) =>
        /\ Future = <<>>
        /\ ~canRedo(codeHistory)

C10_Witness ==
    /\ Len(hLog) >= 1
    /\ Recent(1).op = "set" /\ Recent(1).val # Recent(1).prev
    /\ Recent(1).futLen > 0
    /\ ~Recent(1).pushed
    /\ Future = <<>>

\* What the operation logged as e was asked to be: the call itself, or what
\* the shortcut pressed stands for (Ctrl+Z undo, Ctrl+Y and Ctrl+Shift+Z redo).
Asked(e) ==
    CASE e.key = NoKey -> e.op
      [] e.key = CtrlZ -> "undo"
      [] e.key \in {CtrlY, CtrlShiftZ} -> "redo"
      [] OTHER -> "other"

UndoRedoStep ==
    LET e == hLog'[Len(hLog')]
    IN  /\ Asked(e) = "undo" =>
              IF Past = <<>> THEN codeHistory' = codeHistory
              ELSE /\ Present' = Past[Len(Past)]
                   /\ Past' = SubSeq(Past, 1, Len(Past) - 1)
                   /\ Future' = <<Present>> \o Future
        /\ Asked(e) = "redo" =>
              IF Future = <<>> THEN codeHistory' = codeHistory
              ELSE /\ Present' = Future[1]
                   /\ Future' = Tail(Future)
                   /\ Past' = Append(Past, Present)

\* C31: undo with empty past and redo with empty future change nothing, also
\* when asked for by Ctrl+Z, Ctrl+Y or Ctrl+Shift+Z; otherwise undo moves the
\* last entry of past into present and the old present to the front of
\* future, redo moves the first entry of future into present and the old
\* present to the end of past; canUndo and canRedo say in every state whether
\* past and future are non-empty.
C31_UndoRedoMoveOneEntry ==
    /\ [][UndoRedoStep]_vars
    /\ [](/\ canUndo(codeHistory) <=> Len(Past) > 0
          /\ canRedo(codeHistory) <=> Len(Future) > 0)

C31_Witness ==
    /\ Len(hLog) >= 2
    /\ Recent(2).key = CtrlZ /\ Recent(2).pastLen > 0
    /\ Recent(1).key = CtrlShiftZ /\ Recent(1).futLen > 0
    /\ Present = Recent(2).prev
    /\ Future = <<>>

\* C34: past and future together never hold more than MAX_HISTORY_LENGTH
\* entries, under any sequence of set, undo, redo and clear.
C34_PastAndFutureBounded == Len(Past) + Len(Future) <= MAX_HISTORY_LENGTH

C34_Witness ==
    /\ Len(Past) + Len(Future) = MAX_HISTORY_LENGTH
    /\ Len(Future) > 0
    /\ Len(hLog) >= 1 /\ Recent(1).op = "undo" /\ Recent(1).pastLen = MAX_HISTORY_LENGTH

-----------------------------------------------------------------------------
(* Claims about the sanitizer (SpecSanitize) *)

HasSvgRoot(doc) == Len(doc) = 1 /\ doc[1].tag = "svg"

Denylisted(element) == ToLowerCase(element.tag) \in
    {"script", "iframe", "object", "embed", "form", "input", "button"}

RECURSIVE CountDenylisted(_)
\* The number of denylisted elements in a forest.
CountDenylisted(nodes) ==
    IF Len(nodes) = 0 THEN 0
    ELSE (IF Denylisted(nodes[1]) THEN 1 ELSE 0)
         + CountDenylisted(nodes[1].children) + CountDenylisted(Tail(nodes))

\* An attribute the sanitizer is to keep: neither its name nor its value
\* starts (case-insensitively) with on, javascript: or data:, and its name is
\* not a navigation attribute.
KeptAttr(a) ==
    /\ \A p \in {"on", "javascript:", "data:"} :
          ~StartsWith(ToLowerCase(a.name), p) /\ ~StartsWith(ToLowerCase(a.value), p)
    /\ ToLowerCase(a.name) \notin {"href", "xlink:href", "formaction"}

RECURSIVE SafeView(_)
\* The forest without its denylisted elements (and their descendants), each
\* remaining element with only the attributes that are to be kept.
SafeView(nodes) ==
    IF Len(nodes) = 0 THEN <<>>
    ELSE (IF Denylisted(nodes[1]) THEN <<>>
          ELSE <<[tag |-> nodes[1].tag,
                  attrs |-> SelectSeq(nodes[1].attrs, KeptAttr),
                  children |-> SafeView(nodes[1].children)]>>)
         \o SafeView(Tail(nodes))

RECURSIVE Skeleton(_)
\* The forest's elements without their attributes.
Skeleton(nodes) ==
    [i \in 1..Len(nodes) |->
        [tag |-> nodes[i].tag, children |-> Skeleton(nodes[i].children)]]

RECURSIVE HasEventAttr(_)
\* Some element of the forest carries an attribute whose name starts with on.
HasEventAttr(nodes) ==
    /\ Len(nodes) > 0
    /\ \/ \E i \in 1..Len(nodes[1].attrs) :
             StartsWith(ToLowerCase(nodes[1].attrs[i].name), "on")
       \/ HasEventAttr(nodes[1].children)
       \/ HasEventAttr(Tail(nodes))

\* C3: the output of sanitizeSvg holds no denylisted element, whatever the
\* depth and the arrangement among siblings, and every element that is neither
\* denylisted nor below a denylisted element is still there.
C3_NoDenylistedElement ==
    (sanPhase = "done" /\ HasSvgRoot(sanInput)) =>
        /\ CountDenylisted(sanOutput) = 0
        /\ Skeleton(SafeView(sanOutput)) = Skeleton(SafeView(sanInput))

\* C4: in the output of sanitizeSvg no element carries an attribute whose name
\* starts with on, and every surviving element keeps, unchanged, each of its
\* attributes that is to be kept.
C4_NoEventAttribute ==
    (sanPhase = "done" /\ HasSvgRoot(sanInput)) =>
        /\ ~HasEventAttr(sanOutput)
        /\ SafeView(sanOutput) = SafeView(sanInput)

\* C37: sanitizeSvg given its own output for a markup with an svg root returns
\* it unchanged: the second pass removes no element and no attribute.
C37_SanitizeIdempotent ==
    (sanPhase = "again" /\ HasSvgRoot(sanInput)) => sanOutput = sanInput

-----------------------------------------------------------------------------
(* Claims about the templates (SpecTemplates) *)

\* detectDiagramType of what getDefaultCode returns for each kind
DetectedOfDefault == [k \in DiagramTypes |-> detectDiagramType(getDefaultCode(k))]

\* detectDiagramType of the template of each kind in full
DetectedOfSource == [k \in DiagramTypes |-> detectDiagramType(templateSource[k])]

\* C38: for each of the fifteen kinds, kind detection applied to the template
\* of the kind yields that kind: on the header line the model keeps as the
\* template, on the template in full, and as the kind the session has after
\* the template's file was imported.
C38_TemplateDetectedAsItsKind ==
    /\ \A k \in DiagramTypes : DetectedOfDefault[k] = k
    /\ \A k \in DiagramTypes : DetectedOfSource[k] = k
    /\ \A k \in DiagramTypes :
          (lastOp.op = "import" /\ lastOp.val = TemplateFile(k).name)
              => (settings.diagramType = k /\ codeHistory.present = templateSource[k])

\* The gantt template was imported while the kind was pie.
C38_Witness ==
    /\ lastOp.op = "import" /\ lastOp.val = TemplateFile("gantt").name
    /\ before.settings.diagramType = "pie"
    /\ toast.title = "Import successful"

-----------------------------------------------------------------------------
(* Claims about the session operations (SpecSession) *)

\* C11: after setDiagramType(k), whatever the history, the time since the
\* previous set and the text before it (the template of k included), the text is
\* the template of k, the kind is k, and neither undo nor redo is available.
C11_KindSwitchInstallsTemplate ==
    lastOp.op = "setDiagramType" =>
        /\ codeHistory.present = getDefaultCode(lastOp.val)
        /\ settings.diagramType = lastOp.val
        /\ ~canUndo(codeHistory)
        /\ ~canRedo(codeHistory)

\* The kind is switched to the one whose template is already the text, with a
\* redo pending.
C11_Witness ==
    /\ lastOp.op = "setDiagramType"
    /\ before.codeHistory.present = getDefaultCode(lastOp.val)
    /\ Len(before.codeHistory.future) > 0
    /\ ~canRedo(codeHistory)

\* C12 as stated: in every step that changes the kind, by the kind switch or by
\* an import, the text becomes the new kind's template and past and future
\* become empty.
C12_KindChangeInstallsTemplate ==
    [][settings'.diagramType # settings.diagramType =>
           /\ codeHistory'.present = getDefaultCode(settings'.diagramType)
           /\ codeHistory'.past = <<>>
           /\ codeHistory'.future = <<>>]_vars

\* C12, amended: a step that changes the kind is a kind switch, which installs
\* the new kind's template and empties past and future, or an import, which
\* installs the file's code as a set does (the text stays when the code is
\* empty): past is kept or gains the former text, future is emptied when the text
\* changes and kept when it does not.
C12_KindChangeBySwitchOrImport ==
    [][settings'.diagramType # settings.diagramType =>
           \/ /\ lastOp'.op = "setDiagramType"
              /\ codeHistory'.present = getDefaultCode(settings'.diagramType)
              /\ codeHistory'.past = <<>>
              /\ codeHistory'.future = <<>>
           \/ /\ lastOp'.op = "import"
              /\ LET data == ReadOutcome[lastOp'.val].data
                 IN  codeHistory'.present = IF Truthy(data.code) THEN Shown(data.code)
                                            ELSE codeHistory.present
              /\ codeHistory'.past \in
                     {codeHistory.past,
                      LastN(Append(codeHistory.past, codeHistory.present), MAX_HISTORY_LENGTH)}
              /\ codeHistory'.future = IF codeHistory'.present # codeHistory.present
                                       THEN <<>> ELSE codeHistory.future]_vars

\* An import has changed the kind, the text is not the new kind's template and
\* undo is available.
C12_Witness ==
    /\ lastOp.op = "import"
    /\ settings.diagramType # before.settings.diagramType
    /\ codeHistory.present # getDefaultCode(settings.diagramType)
    /\ canUndo(codeHistory)

\* C16: undo and redo leave the kind, the theme and the title as they were;
\* setTheme and setProjectTitle leave the text, past and future as they were.
C16_HistoryCarriesOnlyText ==
    /\ lastOp.op \in {"undo", "redo"} => settings = before.settings
    /\ lastOp.op \in {"setTheme", "setProjectTitle"} => codeHistory = before.codeHistory

\* An undo has changed the text after the theme and the title were set.
C16_Witness ==
    /\ lastOp.op = "undo"
    /\ codeHistory.present # before.codeHistory.present
    /\ settings.theme # initialSettings.theme
    /\ settings.projectTitle # initialSettings.projectTitle

-----------------------------------------------------------------------------
(* Claims about the import and the stored document (SpecImport, SpecSession) *)

\* The file of the last import.
ImportedFile == FileNamed(lastOp.val)

Imported == lastOp.op = "import"
Accepted == toast.title = "Import successful"
Rejected == toast.title = "Import failed" /\ toast.description # ""
SizeLimitMessages == {"File size exceeds maximum limit of 1MB",
                      "File size exceeds maximum limit (1MB)"}

IsProjectName(file) == Extension(file) \in {"flowilham", "json"}

\* C17 as stated: a file whose whole content has maxLength + 1 characters, raw
\* or project, is rejected with a size-limit error and the session keeps its
\* text; a file of an accepted name whose content has maxLength characters is
\* accepted.
C17_PayloadLimit ==
    Imported =>
        /\ Chars(ImportedFile) = maxLength + 1 =>
               /\ Rejected
               /\ toast.description \in SizeLimitMessages
               /\ Session = before
        /\ (Chars(ImportedFile) = maxLength
              /\ Extension(ImportedFile) \in allowedExtensions) => Accepted

\* C18 as stated: a file with a project extension that is not valid JSON or has
\* no textual code, a file with a name that is not accepted, and a file above
\* the size ceiling are each rejected with a reason, the session as it was.
C18_BadFileRejected ==
    Imported =>
        ((\/ IsProjectName(ImportedFile) /\ ~validateProjectFile(ImportedFile.json)
          \/ Extension(ImportedFile) \notin allowedExtensions
          \/ ImportedFile.size > maxFileSize)
            => Rejected /\ Session = before)

C20_StoredSessionComesBack ==
    lastOp.op = "reload" =>
        /\ codeHistory.present = before.codeHistory.present
        /\ settings = before.settings

-----------------------------------------------------------------------------
(* Claims about the stored document (SpecLoad, SpecImport) *)

SessionFields == {"code", "diagramType", "theme", "projectTitle"}

\* The document parses and has the four fields of the session, each a string.
HasSessionShape(saved) ==
    /\ saved.type = "object"
    /\ \A k \in SessionFields : Field(saved, k).type = "string"

\* The session the hook starts with when nothing is stored.
DefaultSession ==
    [codeHistory |-> NewHistory(getDefaultCode("flowchart")),
     settings |-> [diagramType |-> "flowchart", theme |-> "default", projectTitle |-> ""]]

\* C21 as stated: a session loaded from a stored document that does not parse or
\* lacks the shape of the session state (a field missing or not a string) is
\* the default session.
C21_MalformedLoadsDefaults ==
    (lastOp.op = "load" /\ StoredDocs[lastOp.val].type # "absent"
       /\ ~HasSessionShape(StoredDocs[lastOp.val]))
        => Session = DefaultSession

\* The document is absent, or it is an object whose code is missing or the
\* empty text.
NoUsableText(saved) ==
    \/ saved.type = "absent"
    \/ /\ saved.type = "object"
       /\ \/ Field(saved, "code").type = "undefined"
          \/ Field(saved, "code").type = "string" /\ StrLength(Field(saved, "code")) = 0

\* C33: a session loaded with no document stored, or from a document without
\* a usable text, starts with the template of the kind it loaded, so that the
\* initial text and the initial kind agree.
C33_InitialTextOfLoadedKind ==
    (lastOp.op = "load" /\ NoUsableText(StoredDocs[lastOp.val]))
        => Present = getDefaultCode(settings.diagramType)

\* C36: in every state the kind is one of the fifteen declared kinds and the
\* theme one of the four declared themes, whatever document was found in
\* storage and whatever file was imported.
C36_KindAndThemeDeclared ==
    /\ settings.diagramType \in DiagramTypes
    /\ settings.theme \in MermaidThemes

-----------------------------------------------------------------------------
(* Claims about resetToTemplate (SpecSession) *)

\* A reset made while the text differs from the template of the current kind.
ResetStep ==
    /\ opCount' = opCount + 1
    /\ lastOp'.op = "resetToTemplate"
    /\ codeHistory.present # getDefaultCode(settings.diagramType)

\* C25 as stated: a reset made while the text differs from the template makes
\* the template the text, keeps the entries of past and adds the former text to
\* them, so that one undo restores the former text, whatever the time since
\* the previous set.
C25_ResetAddsEntry ==
    [][ResetStep =>
           /\ codeHistory'.present = getDefaultCode(settings.diagramType)
           /\ codeHistory'.past = Append(codeHistory.past, codeHistory.present)
           /\ HistUndo(codeHistory').present = codeHistory.present]_vars

\* C25, amended: a reset made while the text differs from the template makes
\* the template the text, empties future and never clears past.  When
\* BATCH_THRESHOLD has passed since the previous accepted set, or past is empty,
\* the former text is added to past and one undo restores it; otherwise the
\* reset is batched with the previous set: past stays as it is and one undo
\* restores the entry before the former text.
C25_ResetIsASet ==
    [][ResetStep =>
           /\ codeHistory'.present = getDefaultCode(settings.diagramType)
           /\ codeHistory'.future = <<>>
           /\ settings' = settings
           /\ IF sinceSet >= BATCH_THRESHOLD \/ codeHistory.past = <<>>
              THEN /\ codeHistory'.past = Append(codeHistory.past, codeHistory.present)
                   /\ HistUndo(codeHistory').present = codeHistory.present
              ELSE /\ codeHistory'.past = codeHistory.past
                   /\ HistUndo(codeHistory').present
                          = codeHistory.past[Len(codeHistory.past)]]_vars

\* A reset has added the former text to a past that already had an entry.
C25_Witness ==
    /\ lastOp.op = "resetToTemplate"
    /\ Len(codeHistory.past) >= 2
    /\ codeHistory.past = Append(before.codeHistory.past, before.codeHistory.present)
    /\ codeHistory.present = getDefaultCode(settings.diagramType)
    /\ codeHistory.present # before.codeHistory.present

-----------------------------------------------------------------------------
(* Claims about the rendering flag (Spec) *)

\* C26 as stated: isRendering is true exactly when an external render call is
\* in flight.
C26_RenderingIffInFlight == isRendering <=> inflight # {}

\* C35: in every state isValid is true exactly when error is null: the empty
\* source path and the success path set true and null, the failure path sets
\* false and a message.
C35_ValidIffNoError == isValid <=> error = Null

\* A render call of a source with a syntax error was made, a later call was
\* made too, all have settled and the session is valid again.
C35_Witness ==
    /\ isValid /\ error = Null
    /\ inflight = {}
    /\ \E i \in 1..Len(renderCalls) :
          /\ renderCalls[i].code \in SyntaxErrorCodes
          /\ i < Len(renderCalls)

-----------------------------------------------------------------------------
(* Claims about the settled state (SpecSettle) *)

\* Nothing is rendering, and validity, error and output are what rendering
\* the present text with the present theme comes to.
FinalOutcome ==
    /\ ~isRendering
    /\ IF Trim(Present) = ""
       THEN isValid /\ error = Null /\ svgOutput = EmptyMarkup
       ELSE LET out == MermaidRender(Present, settings.theme)
            IN  IF out.ok THEN isValid /\ error = Null /\ svgOutput = out.svg
                ELSE ~isValid /\ error = out.message

\* A timer is due while a call is in flight.
FireDuringCall == debounce # NoTimer /\ debounce.left = 0 /\ inflight # {}

\* C40: once the changes of text and theme have stopped, the timer fires, every
\* call in flight settles, and from then on isRendering is false and validity
\* and output are the outcome of rendering the final text with the final
\* theme: valid with the markup on success, invalid with the message on
\* failure, valid with empty output for a blank text.
C40_SettlesToFinalRender == <>[]FinalOutcome

\* The same for the behaviours in which no timer is due while a call is in
\* flight.
SettlesWithoutOverlap == []~FireDuringCall => <>[]FinalOutcome

-----------------------------------------------------------------------------
(* Claims about debounce cycles (SpecCycle) *)

CycleStarters == {"setCode", "undo", "redo", "resetToTemplate", "setDiagramType",
                  "import", "rename", "setTheme"}

TextOrThemeChanged == Present' # Present \/ settings'.theme # settings.theme

\* An operation restarts the timer, for the new text and theme, exactly when it
\* changed the text or the theme, and then it is one of the starters; nothing
\* else changes the two; a render call is made only by a timer that fires,
\* with what the timer holds, and that ends the timer.
CycleRule ==
    /\ opCount' # opCount =>
          /\ renderCalls' = renderCalls
          /\ IF TextOrThemeChanged
             THEN /\ lastOp'.op \in CycleStarters
                  /\ debounce' = [left |-> DEBOUNCE_MS, code |-> Present',
                                  theme |-> settings'.theme]
             ELSE debounce' = debounce
    /\ opCount' = opCount =>
          /\ ~TextOrThemeChanged
          /\ debounce' # debounce =>
                /\ debounce # NoTimer
                /\ debounce' = NoTimer \/ debounce' = [debounce EXCEPT !.left = debounce'.left]
                /\ debounce' # NoTimer => debounce'.left < debounce.left
    /\ renderCalls' # renderCalls =>
          /\ debounce # NoTimer /\ debounce.left = 0
          /\ debounce' = NoTimer
          /\ renderCalls' = Append(renderCalls,
                                   [code |-> debounce.code, theme |-> debounce.theme])

\* The last operation changed the theme and nothing else, no operation came
\* after it, and the timer it started has fired.
ThemeAloneFired ==
    /\ lastOp.op = "setTheme"
    /\ before.settings.theme # settings.theme
    /\ debounce = NoTimer

OneCallSinceLastOp ==
    /\ Len(renderCalls) = lastOp.calls + 1
    /\ renderCalls[Len(renderCalls)] = [code |-> Present, theme |-> settings.theme]

\* C32 (as claimed): a debounce cycle, ending in at most one render call, is
\* started exactly by the operations that change the text or the theme; a
\* change of the title alone starts none; a change of the theme alone causes
\* one render call with the unchanged text and the new theme.
C32_CycleByTextOrTheme ==
    /\ [][CycleRule]_vars
    /\ [](ThemeAloneFired => OneCallSinceLastOp)

\* C32 (amended): the same, the change of the theme alone causing that one
\* render call when the text is not blank, and none when it is blank.
C32_CycleByTextOrThemeNonBlank ==
    /\ [][CycleRule]_vars
    /\ [](ThemeAloneFired =>
            IF Trim(Present) = "" THEN Len(renderCalls) = lastOp.calls
            ELSE OneCallSinceLastOp)

C32_Witness ==
    /\ ThemeAloneFired
    /\ Trim(Present) # ""
    /\ OneCallSinceLastOp
    /\ before.settings.projectTitle # initialSettings.projectTitle

-----------------------------------------------------------------------------
(* Claims about the rename patcher (SpecRename) *)

Renamed == lastOp.op = "rename"

\* The syntax-aware patterns that match somewhere in the text.
Matching(code, oldText) ==
    {k \in 1..Len(patterns(oldText)) : Test(patterns(oldText)[k], code)}

\* The text with every match of the one pattern replaced, the anchors kept.
ByPattern(k, code, oldText, newText) ==
    Replace(patterns(oldText)[k], code, "$1" \o newText \o "$2")

\* What the single-rule policy makes of a text: the matches of the first
\* pattern that matches anywhere replaced, else the whole words replaced, else
\* the text itself.
FirstRuleOnly(code, oldText, newText) ==
    LET matching == Matching(code, oldText)
        first == CHOOSE k \in matching : \A j \in matching : k <= j
    IN  IF matching # {} THEN ByPattern(first, code, oldText, newText)
        ELSE IF Test(fallbackPattern(oldText), code)
        THEN Replace(fallbackPattern(oldText), code, newText)
        ELSE code

\* FirstRuleOnly and the cases without a match, worked out once for each text
\* and request
RuleOutcome ==
    [code \in RenameTexts |->
        [request \in RenameRequests |->
            [text |-> FirstRuleOnly(code, request[1], request[2]),
             noMatch |-> /\ Matching(code, request[1]) = {}
                         /\ ~Test(fallbackPattern(request[1]), code)]]]

\* C23: after a rename of one non-empty text to another, the text is the
\* former text with the matches of the first pattern in the list that matches
\* anywhere replaced, and of no other pattern; it is the whole-word replacement
\* only when no pattern matched.  Renaming Alice to Carol in
\* "participant Alice" / "Alice->>Bob: hi" gives "participant Carol" on the
\* first line and leaves the second line as it was.
C23_FirstMatchingRuleOnly ==
    (Renamed /\ lastOp.old # "" /\ lastOp.val # "" /\ lastOp.old # lastOp.val) =>
        /\ Present = RuleOutcome[lastOp.prev][<<lastOp.old, lastOp.val>>].text
        /\ (lastOp.prev = "participant Alice\nAlice->>Bob: hi"
               /\ lastOp.old = "Alice" /\ lastOp.val = "Carol")
              => Present = "participant Carol\nAlice->>Bob: hi"

\* Alice has been renamed to Carol in a text that declares the participant
\* Alice and has Alice send a message.
C23_Witness ==
    /\ Renamed /\ lastOp.old = "Alice" /\ lastOp.val = "Carol"
    /\ lastOp.prev = "participant Alice\nAlice->>Bob: hi"
    /\ Present # lastOp.prev

\* The cases in which handleRename has nothing to do.
NothingToRename(code, oldText, newText) ==
    \/ oldText = newText
    \/ oldText = "" \/ newText = ""
    \/ RuleOutcome[code][<<oldText, newText>>].noMatch
    \/ RuleOutcome[code][<<oldText, newText>>].text = code

\* A step that is a rename request.
RenameStep == opCount' = opCount + 1 /\ lastOp'.op = "rename"

\* C24: a rename request whose texts are equal, or one of them empty, or that
\* matches nothing in the text, or whose rewritten text is the current text,
\* leaves the text, past and future as they were, makes no set call and
\* starts no debounce cycle.
C24_NothingToRenameChangesNothing ==
    [][(RenameStep /\ NothingToRename(Present, lastOp'.old, lastOp'.val)) =>
           UNCHANGED <<codeHistory, sinceSet, sinceCall, debounce, settings, isValid,
                       error, svgOutput, isRendering, inflight, renderCalls, stored>>]_vars

\* A rename of hello to Hello found the note text Hello, which the last
\* pattern matches whatever the case, and left everything as it was.
C24_Witness ==
    /\ Renamed /\ lastOp.old = "hello" /\ lastOp.val = "Hello"
    /\ lastOp.prev = "Note over A: Hello"
    /\ Present = lastOp.prev
    /\ Past = <<>>

-----------------------------------------------------------------------------
(* Claims about the preview zoom (SpecZoom) *)

ZoomStep(op) == opCount' = opCount + 1 /\ lastOp'.op = op

InZoomRange == scale \in MIN_SCALE..MAX_SCALE

\* C29: the zoom starts at 100%; zooming in adds 25 points, zooming out
\* subtracts 25 points, a reset gives 100% and the pan (0, 0); after any
\* sequence of zoom-in, zoom-out, ctrl-wheel and reset the zoom is within
\* 25% and 500%.
C29_StepsOf25 ==
    /\ scale = 100
    /\ [][/\ ZoomStep("zoomIn") => scale' = scale + 25
          /\ ZoomStep("zoomOut") => scale' = scale - 25
          /\ ZoomStep("reset") => scale' = 100 /\ pan' = <<0, 0>>]_vars
    /\ []InZoomRange

\* C29, amended: the zoom starts at 100%; zooming in adds 25 points but stops
\* at 500%, zooming out subtracts 25 points but stops at 25%, a ctrl-wheel
\* step adds or subtracts 10 points and stops at the same limits, a reset
\* gives 100% and the pan (0, 0); the zoom is always within 25% and 500%.
C29_StepsOf25WithinLimits ==
    /\ scale = 100
    /\ [][/\ ZoomStep("zoomIn") =>
                scale' = IF scale + 25 > 500 THEN 500 ELSE scale + 25
          /\ ZoomStep("zoomOut") =>
                scale' = IF scale - 25 < 25 THEN 25 ELSE scale - 25
          /\ ZoomStep("wheel") =>
                \/ scale' = scale + 10 /\ scale' <= 500
                \/ scale' = scale - 10 /\ scale' >= 25
                \/ scale' = 500 /\ scale + 10 > 500
                \/ scale' = 25 /\ scale - 10 < 25
          /\ ZoomStep("reset") => scale' = 100 /\ pan' = <<0, 0>>]_vars
    /\ []InZoomRange

\* Zooming in from 490% has stopped at 500%.
C29_Witness ==
    lastOp.op = "zoomIn" /\ lastOp.scale = 490 /\ scale = 500

-----------------------------------------------------------------------------
(* Claims about file operations (SpecFiles) *)

\* C27: at most one import or export is in flight at any time.
C27_OneFileOperation == Len(reading) + Len(exporting) <= 1

\* A step that asks for an export of the rendered diagram, of the source.
ExportStep == opCount' = opCount + 1 /\ lastOp'.op = "export"
CodeExportStep == opCount' = opCount + 1 /\ lastOp'.op = "exportCode"

\* The step hands no file to the download and starts no raster export.
NoFile ==
    /\ exportedSvg' = exportedSvg
    /\ exporting' = exporting
    /\ exportedCode' = exportedCode

ExportInProgress == exporting # <<>>

\* C28: the export trigger is enabled exactly when isValid is true, the
\* rendered output is not empty and no export is in progress; an export asked
\* for while isValid is false or the output is empty produces no file and
\* shows the notification 'Cannot export'.
C28_NoExportUnlessValid ==
    /\ [](ExportEnabled <=> (isValid /\ svgOutput # EmptyMarkup /\ ~ExportInProgress))
    /\ [][((ExportStep \/ CodeExportStep) /\ (~isValid \/ svgOutput = EmptyMarkup)) =>
             toast'.title = "Cannot export" /\ NoFile]_vars

\* C28, amended: the export trigger is enabled exactly when isValid is true,
\* the rendered output is not empty and no export is in progress; an export
\* of the rendered diagram (SVG, PNG, JPG) asked for while isValid is false or
\* the output is empty produces no file and shows 'Cannot export'; an export
\* of the source (.mmd, .flowilham) is refused in that way only when the text
\* is empty, and otherwise produces a file with the current text.
C28_NoRenderedExportUnlessValid ==
    /\ [](ExportEnabled <=> (isValid /\ svgOutput # EmptyMarkup /\ ~ExportInProgress))
    /\ [][/\ (ExportStep /\ (~isValid \/ svgOutput = EmptyMarkup)) =>
                toast'.title = "Cannot export" /\ NoFile
          /\ (CodeExportStep /\ Present = "") =>
                toast'.title = "Cannot export" /\ NoFile
          /\ (CodeExportStep /\ Present # "") =>
                /\ toast'.title = "Export successful"
                /\ Len(exportedCode') = Len(exportedCode) + 1
                /\ exportedCode'[Len(exportedCode')].code = Present]_vars

\* An export was asked for from the open menu after the text had stopped
\* being valid, and was refused.
C28_Witness ==
    /\ lastOp.op = "export"
    /\ toast.title = "Cannot export"
    /\ ~isValid
    /\ exportedSvg = EmptyMarkup /\ exporting = <<>>

-----------------------------------------------------------------------------
(* Claims about the import of raw source files (SpecImport) *)

\* The content of a file as text
Content(file) == Shown(JStrPad(file.text, file.pad))

\* A file with the name of a raw source file has been imported.
RawImported == Imported /\ Accepted /\ ~IsProjectName(ImportedFile)

\* The source text a file carries: the code of a project file, the content of
\* a file taken as raw source.
CarriedText(file) ==
    IF IsProjectName(file) /\ validateProjectFile(file.json)
    THEN Shown(Field(file.json, "code"))
    ELSE Content(file)

\* C39: after every import reported as successful the text is the source text
\* the file carries, the empty text included; and an import that changed the
\* kind, the theme or the title was successful and has set the text so.
C39_ImportSetsCarriedText ==
    /\ (Imported /\ Accepted) => Present = CarriedText(ImportedFile)
    /\ (Imported /\ settings # before.settings) =>
          (Accepted /\ Present = CarriedText(ImportedFile))

\* C30: after the import of a raw source file the text is the file's exact
\* content and the kind is that of the first pattern of the detector's list
\* that matches the content, flowchart if none does.
C30_RawImportSetsTextAndKind ==
    RawImported =>
        /\ Present = Content(ImportedFile)
        /\ settings.diagramType = detectDiagramType(Content(ImportedFile))
====
